---------------------------- MODULE Spec2Model ----------------------------
(***************************************************************************)
(* A model of the low light scene analysis of CameraITS                   *)
(* (utils/low_light_utils.py): analyze_low_light_scene_capture and the     *)
(* helpers it calls.                                                       *)
(*                                                                         *)
(* A frame is modelled by its content: its size, a background value and a  *)
(* sequence of uniformly coloured rectangles (the squares of the chart),   *)
(* the bounding boxes of its red contours, and the annotations drawn on    *)
(* it.  Pixel values are kept in the XYZ colour space, i.e. as the values  *)
(* cv2.cvtColor(.., COLOR_BGR2XYZ) returns for them.  Rotations, flips and *)
(* slices act on the content exactly as they act on the pixels.           *)
(***************************************************************************)
EXTENDS Integers, Sequences, FiniteSets, TLC

(***************************************************************************)
(* Program constants                                                       *)
(***************************************************************************)
LOW_LIGHT_BOOST_AVG_DELTA_LUMINANCE_THRESH == 18
LOW_LIGHT_BOOST_AVG_LUMINANCE_THRESH == 90
BOX_MIN_SIZE == 20
\* _BOX_PADDING_RATIO = 0.2, kept as its reciprocal: padding = min(w, h) / 5
BOX_PADDING_DIV == 5
CROP_PADDING == 10
EXPECTED_NUM_OF_BOXES == 20
KEY_BOTTOM_LEFT == "bottom_left"
KEY_BOTTOM_RIGHT == "bottom_right"
KEY_TOP_LEFT == "top_left"
KEY_TOP_RIGHT == "top_right"
\* _MIN_ASPECT_RATIO = 0.8 = 4/5 and _MAX_ASPECT_RATIO = 1.2 = 6/5, compared
\* with w / h: 0.8 < w / h < 1.2 is 4 * h < 5 * w and 5 * w < 6 * h.
AspectInRange(w, h) == 4 * h < 5 * w /\ 5 * w < 6 * h

(***************************************************************************)
(* Bounds of the model                                                     *)
(***************************************************************************)
\* side of a chart square, the gap between two squares, the chart's margin
BoxSize == 24
Gap == 6
Margin == 3
\* frame border outside the red outline
Border == 5
\* how far a non-square frame is from square
Skew == 24
\* corner luminances of the corner frames range over 0..MaxCornerLum
MaxCornerLum == 2

(***************************************************************************)
(* Arithmetic helpers                                                      *)
(***************************************************************************)
Min(a, b) == IF a < b THEN a ELSE b
Max(a, b) == IF a > b THEN a ELSE b
\* a python sequence index (0-based)
At(s, k) == s[k + 1]
\* python s[lo:hi] for 0 <= lo, hi
PySlice(s, lo, hi) == SubSeq(s, Min(lo, Len(s)) + 1, Min(hi, Len(s)))

RECURSIVE SumSeq(_)
SumSeq(s) == IF s = <<>> THEN 0 ELSE Head(s) + SumSeq(Tail(s))

Range(s) == {s[i] : i \in 1..Len(s)}

(***************************************************************************)
(* Images                                                                  *)
(***************************************************************************)
NoXYZ == <<0, 0, 0>>

Rect(x, y, w, h, xyz) == [x |-> x, y |-> y, w |-> w, h |-> h, xyz |-> xyz]

Box(r) == <<r.x, r.y, r.w, r.h>>

\* cv2.rotate / cv2.flip on one rectangle of a W x H image
GeomRect(r, W, H, op) ==
  CASE op = "rot_cw"  -> [r EXCEPT !.x = H - r.y - r.h, !.y = r.x,
                                   !.w = r.h, !.h = r.w]
    [] op = "rot_ccw" -> [r EXCEPT !.x = r.y, !.y = W - r.x - r.w,
                                   !.w = r.h, !.h = r.w]
    [] op = "flip0"   -> [r EXCEPT !.y = H - r.y - r.h]
    [] op = "flip1"   -> [r EXCEPT !.x = W - r.x - r.w]
    [] op = "flip-1"  -> [r EXCEPT !.x = W - r.x - r.w, !.y = H - r.y - r.h]

GeomSeq(s, W, H, op) == [i \in 1..Len(s) |-> GeomRect(s[i], W, H, op)]

GeomImage(img, op) ==
  [w |-> IF op \in {"rot_cw", "rot_ccw"} THEN img.h ELSE img.w,
   h |-> IF op \in {"rot_cw", "rot_ccw"} THEN img.w ELSE img.h,
   bg |-> img.bg,
   rects |-> GeomSeq(img.rects, img.w, img.h, op),
   red |-> GeomSeq(img.red, img.w, img.h, op),
   marks |-> GeomSeq(img.marks, img.w, img.h, op)]

\* cv2.rotate(img, cv2.ROTATE_90_CLOCKWISE / cv2.ROTATE_90_COUNTERCLOCKWISE)
Rotate(img, code) ==
  GeomImage(img, IF code = "ROTATE_90_CLOCKWISE" THEN "rot_cw" ELSE "rot_ccw")

\* cv2.flip(img, flipCode): 0 flips around the x axis, a positive code
\* around the y axis, a negative code around both
Flip(img, flipCode) ==
  GeomImage(img, IF flipCode = 0 THEN "flip0"
                 ELSE IF flipCode > 0 THEN "flip1" ELSE "flip-1")

\* a numpy slice bound on an axis of length n
NormIdx(i, n) == IF i < 0 THEN Max(0, n + i) ELSE Min(i, n)

\* the part of rectangle r inside [x0, x1) x [y0, y1), in the slice's
\* coordinates
ClipRect(r, x0, y0, x1, y1) ==
  LET nx0 == Max(r.x, x0)
      ny0 == Max(r.y, y0)
      nx1 == Min(r.x + r.w, x1)
      ny1 == Min(r.y + r.h, y1)
  IN [r EXCEPT !.x = nx0 - x0, !.y = ny0 - y0,
               !.w = Max(0, nx1 - nx0), !.h = Max(0, ny1 - ny0)]

NonEmptyRect(r) == r.w > 0 /\ r.h > 0

ClipSeq(s, x0, y0, x1, y1) ==
  SelectSeq([i \in 1..Len(s) |-> ClipRect(s[i], x0, y0, x1, y1)], NonEmptyRect)

\* a red contour is an outline: it has pixels in [x0, x1) x [y0, y1) unless
\* that window lies inside it
OutlineSeq(s, x0, y0, x1, y1) ==
  LET Crosses(r) == ~(/\ r.x < x0 /\ x1 < r.x + r.w
                      /\ r.y < y0 /\ y1 < r.y + r.h)
  IN ClipSeq(SelectSeq(s, Crosses), x0, y0, x1, y1)

\* img[top:bottom, left:right]
Slice(img, top, bottom, left, right) ==
  LET y0 == NormIdx(top, img.h)
      y1 == Max(y0, NormIdx(bottom, img.h))
      x0 == NormIdx(left, img.w)
      x1 == Max(x0, NormIdx(right, img.w))
  IN [w |-> x1 - x0, h |-> y1 - y0, bg |-> img.bg,
      rects |-> ClipSeq(img.rects, x0, y0, x1, y1),
      red |-> OutlineSeq(img.red, x0, y0, x1, y1),
      marks |-> ClipSeq(img.marks, x0, y0, x1, y1)]

IsEmptyImage(img) == img.w = 0 \/ img.h = 0

\* _BOUNDING_BOX_COLOR = (0, 255, 0) in BGR, as cv2.cvtColor(.., COLOR_BGR2XYZ)
\* returns it: X = 0.357580 * 255, Y = 0.715160 * 255, Z = 0.119193 * 255
BOUNDING_BOX_XYZ == <<91, 182, 30>>

\* pixel (px, py) lies on the line cv2.rectangle draws for mark m, from
\* (m.x, m.y) to (m.x + m.w, m.y + m.h); the stroke of thickness 2 covers at
\* least this line
OnStroke(m, px, py) ==
  /\ m.xyz = "BOUNDING_BOX_COLOR"
  /\ m.x <= px /\ px <= m.x + m.w
  /\ m.y <= py /\ py <= m.y + m.h
  /\ (px = m.x \/ px = m.x + m.w \/ py = m.y \/ py = m.y + m.h)

\* the XYZ value of pixel (px, py): what was drawn on the image covers the
\* squares, the squares cover the background
PixelXYZ(img, px, py) ==
  LET hit == {i \in 1..Len(img.rects) :
                /\ img.rects[i].x <= px /\ px < img.rects[i].x + img.rects[i].w
                /\ img.rects[i].y <= py /\ py < img.rects[i].y + img.rects[i].h}
  IN IF \E i \in 1..Len(img.marks) : OnStroke(img.marks[i], px, py)
     THEN BOUNDING_BOX_XYZ
     ELSE IF hit = {} THEN img.bg
     ELSE img.rects[CHOOSE i \in hit : \A j \in hit : j <= i].xyz


(***************************************************************************)
(* _crop                                                                   *)
(***************************************************************************)
\* the loop of _crop over the red contours' bounding boxes: the state is
\* <<max_area, max_box>>, max_box = <<>> standing for None
RECURSIVE CropLoop(_, _, _)
CropLoop(contours, max_area, max_box) ==
  IF contours = <<>> THEN max_box
  ELSE LET c == Head(contours)
           area == c.w * c.h
       IN IF AspectInRange(c.w, c.h) /\ area > max_area
          THEN CropLoop(Tail(contours), area, <<c.x, c.y, c.w, c.h>>)
          ELSE CropLoop(Tail(contours), max_area, max_box)

Crop(img) ==
  LET max_box == CropLoop(img.red, 20, <<>>)
  IN IF max_box # <<>>
     THEN LET x == max_box[1]
              y == max_box[2]
              w == max_box[3]
              h == max_box[4]
          IN Slice(img, y + CROP_PADDING, y + h - CROP_PADDING,
                        x + CROP_PADDING, x + w - CROP_PADDING)
     ELSE img

(***************************************************************************)
(* _find_boxes                                                             *)
(***************************************************************************)
\* The contours cv2.findContours returns for the thresholded frame are the
\* rectangles of the frame, in the frame's order.
\* faulty variant: the height is not compared with the minimum size
AcceptBoxAnyHeight(c) ==
  c.w > BOX_MIN_SIZE /\ AspectInRange(c.w, c.h)

AcceptBox(c) ==
  c.w > BOX_MIN_SIZE /\ c.h > BOX_MIN_SIZE /\ AspectInRange(c.w, c.h)

FindBoxes(image) ==
  LET kept == SelectSeq(image.rects, AcceptBox)
  IN [i \in 1..Len(kept) |-> Box(kept[i])]

(***************************************************************************)
(* _compute_luminance_regions                                              *)
(***************************************************************************)
\* int(x + padding) and int(x + w - padding) for padding = min(w, h) * 0.2
PadLow(m) == m \div BOX_PADDING_DIV
PadHigh(m) == (m + BOX_PADDING_DIV - 1) \div BOX_PADDING_DIV

WindowOf(b) ==
  LET x == b[1]
      y == b[2]
      w == b[3]
      h == b[4]
      m == Min(w, h)
  IN [left |-> x + PadLow(m), top |-> y + PadLow(m),
      right |-> x + w - PadHigh(m), bottom |-> y + h - PadHigh(m)]

\* the sum of all three channels of the pixels (x0..x1-1, py)
RECURSIVE RowSum(_, _, _, _)
RowSum(image, x0, x1, py) ==
  IF x0 >= x1 THEN 0
  ELSE LET p == PixelXYZ(image, x0, py)
       IN p[1] + p[2] + p[3] + RowSum(image, x0 + 1, x1, py)

\* box = image[top:bottom, left:right]; box_xyz = cvtColor(box);
\* int(np.mean(box_xyz[1])): box_xyz[1] is the row of index 1 of the patch,
\* with its three channels.  The result is -1 when cvtColor raises (an empty
\* patch) or the patch has no row of index 1.
Intensity(image, b) ==
  LET win == WindowOf(b)
      y0 == NormIdx(win.top, image.h)
      y1 == Max(y0, NormIdx(win.bottom, image.h))
      x0 == NormIdx(win.left, image.w)
      x1 == Max(x0, NormIdx(win.right, image.w))
  IN IF x1 - x0 = 0 \/ y1 - y0 < 2 THEN -1
     ELSE RowSum(image, x0, x1, y0 + 1) \div (3 * (x1 - x0))

ComputeLuminanceRegions(image, boxes) ==
  LET intensities == [i \in 1..Len(boxes) |-> <<boxes[i], Intensity(image, boxes[i])>>]
  IN [raised |-> \E i \in 1..Len(boxes) : intensities[i][2] = -1,
      value |-> intensities]

(***************************************************************************)
(* _sort_by_columns                                                        *)
(***************************************************************************)
\* the sort key r[0][k] of a (box, luminance) pair
KeyOf(r, k) == At(At(r, 0), k)

RECURSIVE InsertByKey(_, _, _)
InsertByKey(s, e, k) ==
  IF s = <<>> THEN <<e>>
  ELSE IF KeyOf(Head(s), k) <= KeyOf(e, k)
       THEN <<Head(s)>> \o InsertByKey(Tail(s), e, k)
       ELSE <<e>> \o s

\* python's sorted(s, key=lambda r: r[0][k]): a stable sort
RECURSIVE PySorted(_, _)
PySorted(s, k) ==
  IF s = <<>> THEN <<>>
  ELSE InsertByKey(PySorted(SubSeq(s, 1, Len(s) - 1), k), s[Len(s)], k)

\* faulty variant: the last two elements are left as the column sort has them
SortByColumnsTailUnsorted(regions) ==
  LET col_sorted == PySorted(regions, 0)
      n == Len(col_sorted)
      Col(i) == PySlice(col_sorted, i * 4 + 2, i * 4 + 2 + 4)
  IN PySorted(PySlice(col_sorted, 0, 2), 1)
     \o PySorted(Col(0), 1) \o PySorted(Col(1), 1)
     \o PySorted(Col(2), 1) \o PySorted(Col(3), 1)
     \o SubSeq(col_sorted, Max(1, n - 1), n)

SortByColumns(regions) ==
  LET col_sorted == PySorted(regions, 0)
      n == Len(col_sorted)
      Col(i) == PySlice(col_sorted, i * 4 + 2, i * 4 + 2 + 4)
  IN PySorted(PySlice(col_sorted, 0, 2), 1)
     \o PySorted(Col(0), 1) \o PySorted(Col(1), 1)
     \o PySorted(Col(2), 1) \o PySorted(Col(3), 1)
     \o PySorted(SubSeq(col_sorted, Max(1, n - 1), n), 1)

(***************************************************************************)
(* _correct_image_rotation                                                 *)
(***************************************************************************)
\* corner_brightness, in the order the dict is iterated
CornerBrightness(regions) ==
  << <<KEY_TOP_LEFT, At(At(regions, 2), 1)>>,
     <<KEY_BOTTOM_LEFT, At(At(regions, 5), 1)>>,
     <<KEY_TOP_RIGHT, At(At(regions, 14), 1)>>,
     <<KEY_BOTTOM_RIGHT, At(At(regions, 17), 1)>> >>

\* a (corner, luminance) tuple; inf is 1 for float('inf'), -1 for
\* float('-inf') and 0 for a number
CornerTuple(corner, lum, inf) == [corner |-> corner, lum |-> lum, inf |-> inf]

\* faulty variant: the last of several darkest corners wins
LumLe(lum, c) == c.inf = 1 \/ (c.inf = 0 /\ lum <= c.lum)
LumLt(lum, c) == c.inf = 1 \/ (c.inf = 0 /\ lum < c.lum)
LumGt(lum, c) == c.inf = -1 \/ (c.inf = 0 /\ lum > c.lum)

\* the loop over corner_brightness.items(): <<darkest_corner, brightest_corner>>
RECURSIVE CornerLoop(_, _, _)
CornerLoop(items, darkest, brightest) ==
  IF items = <<>> THEN <<darkest, brightest>>
  ELSE LET corner == Head(items)[1]
           luminance == Head(items)[2]
       IN CornerLoop(Tail(items),
            IF LumLt(luminance, darkest)
              THEN CornerTuple(corner, luminance, 0) ELSE darkest,
            IF LumGt(luminance, brightest)
              THEN CornerTuple(corner, luminance, 0) ELSE brightest)

FindCorners(regions) ==
  CornerLoop(CornerBrightness(regions),
             CornerTuple("", 0, 1), CornerTuple("", 0, -1))

\* the cv2 calls made for the brightest corner when the darkest corner is
\* the top left one, <<"raise">> standing for the AssertionError
\* faulty variant: the flip after the rotation is missing
DarkestTopLeftUnflipped(brightest) ==
  IF brightest = KEY_BOTTOM_LEFT THEN <<"rotate_cw">>
  ELSE IF brightest = KEY_TOP_RIGHT THEN <<"flip-1">>
  ELSE <<"raise">>

DarkestTopLeft(brightest) ==
  IF brightest = KEY_BOTTOM_LEFT THEN <<"rotate_cw", "flip0">>
  ELSE IF brightest = KEY_TOP_RIGHT THEN <<"flip-1">>
  ELSE <<"raise">>

\* faulty variant: the rotation goes the wrong way
DarkestBottomLeftClockwise(brightest) ==
  IF brightest = KEY_TOP_LEFT THEN <<"rotate_cw">>
  ELSE IF brightest = KEY_BOTTOM_RIGHT THEN <<"flip1">>
  ELSE <<"raise">>

DarkestBottomLeft(brightest) ==
  IF brightest = KEY_TOP_LEFT THEN <<"rotate_ccw">>
  ELSE IF brightest = KEY_BOTTOM_RIGHT THEN <<"flip1">>
  ELSE <<"raise">>

\* faulty variant: an unmapped pair leaves the image as it is
DarkestTopRightSilent(brightest) ==
  IF brightest = KEY_TOP_LEFT THEN <<"flip0">>
  ELSE IF brightest = KEY_BOTTOM_RIGHT THEN <<"rotate_cw">>
  ELSE <<>>

DarkestTopRight(brightest) ==
  IF brightest = KEY_TOP_LEFT THEN <<"flip0">>
  ELSE IF brightest = KEY_BOTTOM_RIGHT THEN <<"rotate_cw">>
  ELSE <<"raise">>

\* faulty variant: the canonical orientation is flipped
DarkestBottomRightFlipped(brightest) ==
  IF brightest = KEY_BOTTOM_LEFT THEN <<"flip1">>
  ELSE IF brightest = KEY_TOP_RIGHT THEN <<"rotate_cw", "flip1">>
  ELSE <<"raise">>

DarkestBottomRight(brightest) ==
  IF brightest = KEY_BOTTOM_LEFT THEN <<>>
  ELSE IF brightest = KEY_TOP_RIGHT THEN <<"rotate_cw", "flip1">>
  ELSE <<"raise">>

\* the if / elif chain over darkest_corner[0]
OrientationCalls(darkest, brightest) ==
  IF darkest = KEY_TOP_LEFT THEN DarkestTopLeft(brightest)
  ELSE IF darkest = KEY_BOTTOM_LEFT THEN DarkestBottomLeft(brightest)
  ELSE IF darkest = KEY_TOP_RIGHT THEN DarkestTopRight(brightest)
  ELSE IF darkest = KEY_BOTTOM_RIGHT THEN DarkestBottomRight(brightest)
  ELSE <<>>

Cv2Call(img, call) ==
  CASE call = "rotate_cw"  -> Rotate(img, "ROTATE_90_CLOCKWISE")
    [] call = "rotate_ccw" -> Rotate(img, "ROTATE_90_COUNTERCLOCKWISE")
    [] call = "flip0"      -> Flip(img, 0)
    [] call = "flip1"      -> Flip(img, 1)
    [] call = "flip-1"     -> Flip(img, -1)

RECURSIVE Cv2Calls(_, _)
Cv2Calls(img, calls) ==
  IF calls = <<>> THEN img ELSE Cv2Calls(Cv2Call(img, Head(calls)), Tail(calls))

\* raised: "" or the failure; calls: the cv2 calls made; img: the result
CorrectImageRotation(img, regions) ==
  LET found == FindCorners(regions)
      darkest_corner == found[1]
      brightest_corner == found[2]
      calls == OrientationCalls(darkest_corner.corner, brightest_corner.corner)
  IN IF darkest_corner = brightest_corner
     THEN [raised |-> "ambiguous", calls |-> <<>>, img |-> img]
     ELSE IF calls = <<"raise">>
     THEN [raised |-> "unmapped", calls |-> <<>>, img |-> img]
     ELSE [raised |-> "", calls |-> calls, img |-> Cv2Calls(img, calls)]

(***************************************************************************)
(* _draw_luminance                                                         *)
(***************************************************************************)
RECURSIVE DrawMarks(_)
DrawMarks(intensities) ==
  IF intensities = <<>> THEN <<>>
  ELSE LET b == Head(intensities)[1]
           win == WindowOf(b)
       IN << Rect(win.left, win.top, win.right - win.left,
                  win.bottom - win.top, "BOUNDING_BOX_COLOR"),
             Rect(b[1], b[2] - 10, 0, 0, ToString(Head(intensities)[2])) >>
          \o DrawMarks(Tail(intensities))

DrawLuminance(image, intensities) ==
  [image EXCEPT !.marks = image.marks \o DrawMarks(intensities)]

(***************************************************************************)
(* _compute_avg, _compute_avg_delta_of_successive_boxes                    *)
(***************************************************************************)
\* a python float quotient num / den, kept exact
Ratio(num, den) == [num |-> num, den |-> den]
\* faulty variant: a strict threshold
RatioLe(r, t) == r.num <= t * r.den
RatioLt(r, t) == r.num < t * r.den

LuminanceValues(results) == [i \in 1..Len(results) |-> results[i][2]]

\* faulty variant: the mean of the first 5 boxes
ComputeAvgFirstFive(results) ==
  LET luminance_values == LuminanceValues(PySlice(results, 0, 5))
  IN Ratio(SumSeq(luminance_values), Len(luminance_values))

ComputeAvg(results) ==
  LET luminance_values == LuminanceValues(PySlice(results, 0, 6))
  IN Ratio(SumSeq(luminance_values), Len(luminance_values))

\* faulty variant: the sum of the deltas divided by the number of boxes
ComputeAvgDeltaOverBoxes(results) ==
  LET luminance_values == LuminanceValues(PySlice(results, 0, 6))
      delta == [i \in 1..(Len(luminance_values) - 1) |->
                  At(luminance_values, i) - At(luminance_values, i - 1)]
  IN Ratio(SumSeq(delta), Len(luminance_values))

\* faulty variant: the deltas of all the boxes are averaged
ComputeAvgDeltaOfAllBoxes(results) ==
  LET luminance_values == LuminanceValues(results)
      delta == [i \in 1..(Len(luminance_values) - 1) |->
                  At(luminance_values, i) - At(luminance_values, i - 1)]
  IN Ratio(SumSeq(delta), Len(delta))

ComputeAvgDeltaOfSuccessiveBoxes(results) ==
  LET luminance_values == LuminanceValues(PySlice(results, 0, 6))
      delta == [i \in 1..(Len(luminance_values) - 1) |->
                  At(luminance_values, i) - At(luminance_values, i - 1)]
  IN Ratio(SumSeq(delta), Len(delta))

\* the indices of sorted_regions listed in hilbert_ordered
HILBERT == <<17, 13, 12, 16, 15, 14, 10, 11, 7, 6, 2, 3, 4, 8, 9, 5>>

\* faulty variant: the interior squares left in column order
HilbertOrderedByColumn(sorted_regions) ==
  [j \in 1..Len(HILBERT) |-> At(sorted_regions, j + 1)]

\* faulty variant: the last entry is a diagnostic square
HilbertOrderedWithDiagnostic(sorted_regions) ==
  [j \in 1..Len(HILBERT) |->
     At(sorted_regions, IF j = Len(HILBERT) THEN 1 ELSE HILBERT[j])]

\* faulty variant: the interior squares row by row
HilbertOrderedRowMajor(sorted_regions) ==
  [j \in 1..Len(HILBERT) |->
     At(sorted_regions, 2 + 4 * ((j - 1) % 4) + ((j - 1) \div 4))]

HilbertOrdered(sorted_regions) ==
  [j \in 1..Len(HILBERT) |-> At(sorted_regions, HILBERT[j])]

(***************************************************************************)
(* The frames analysed                                                     *)
(*                                                                         *)
(* The chart is a 4x4 grid of squares with one diagnostic square outside   *)
(* each corner of the grid, so that in every orientation the two leftmost  *)
(* and the two rightmost squares are diagnostic ones.  Squares sit on a    *)
(* 6x6 lattice of positions; the square of index k of the column sorted    *)
(* list sits at lattice position LatticeOf(k).                             *)
(***************************************************************************)
Pitch == BoxSize + Gap
Side == 2 * Margin + 6 * BoxSize + 5 * Gap
Pos(i) == Margin + i * Pitch
Gray(v) == <<v, v, v>>

LatticeOf(k) ==
  CASE k = 0 -> <<0, 0>>
    [] k = 1 -> <<0, 5>>
    [] k = 18 -> <<5, 0>>
    [] k = 19 -> <<5, 5>>
    [] OTHER -> <<((k - 2) \div 4) + 1, ((k - 2) % 4) + 1>>

HilbertPos(k) == CHOOSE j \in 0..15 : HILBERT[j + 1] = k

\* luminance of the square of sorted index k: a ramp along the traversal
\* order, start + step * position, saturated at 255
RampLum(start, step) ==
  [k \in 0..19 |-> IF k \in 2..17
                     THEN Gray(Min(255, start + step * HilbertPos(k)))
                     ELSE Gray(128)]

\* a colour whose X, Y and Z differ, of luma v
Tint(v) == <<Max(0, v - 4), v, Min(255, v + 8)>>

\* the ramp with every square tinted
TintedRamp(start, step) == [k \in 0..19 |-> Tint(RampLum(start, step)[k][2])]

\* luminance with the four corners of the grid given and the rest flat
CornerLum(tl, bl, tr, br) ==
  [k \in 0..19 |-> CASE k = 2 -> Gray(tl)
                     [] k = 5 -> Gray(bl)
                     [] k = 14 -> Gray(tr)
                     [] k = 17 -> Gray(br)
                     [] OTHER -> Gray(1)]

\* the chart as a frame of Side + extraW by Side + extraH pixels, its
\* squares shifted right by dx, listed in the reverse of the sorted order
Chart(lum, dx, extraW, extraH) ==
  [w |-> Side + extraW, h |-> Side + extraH, bg |-> NoXYZ,
   rects |-> [i \in 1..20 |->
                Rect(dx + Pos(LatticeOf(20 - i)[1]), Pos(LatticeOf(20 - i)[2]),
                     BoxSize, BoxSize, lum[20 - i])],
   red |-> <<>>, marks |-> <<>>]

Shapes == {"square", "tall", "wide"}

ShapedChart(lum, shape) ==
  CASE shape = "square" -> Chart(lum, 0, 0, 0)
    [] shape = "tall" -> Chart(lum, 0, 0, Skew)
    [] shape = "wide" -> Chart(lum, Skew, Skew, 0)

ShiftRect(r, dx, dy) == [r EXCEPT !.x = r.x + dx, !.y = r.y + dy]

\* the captured frame: the chart inside a red outline, inside a border
Framed(chart) ==
  [w |-> chart.w + 2 * (Border + CROP_PADDING),
   h |-> chart.h + 2 * (Border + CROP_PADDING),
   bg |-> chart.bg,
   rects |-> [i \in 1..Len(chart.rects) |->
                ShiftRect(chart.rects[i], Border + CROP_PADDING,
                          Border + CROP_PADDING)],
   red |-> << [x |-> Border, y |-> Border, w |-> chart.w + 2 * CROP_PADDING,
               h |-> chart.h + 2 * CROP_PADDING, xyz |-> "red"] >>,
   marks |-> <<>>]

RECURSIVE Oriented(_, _)
Oriented(img, ops) ==
  IF ops = <<>> THEN img ELSE Oriented(GeomImage(img, Head(ops)), Tail(ops))

\* the eight orientations a capture of the chart can have
Orientations ==
  { <<>>, <<"rot_cw">>, <<"rot_ccw">>, <<"flip-1">>, <<"flip0">>, <<"flip1">>,
    <<"rot_cw", "flip0">>, <<"rot_cw", "flip1">> }

\* variants of the chart for the box count
CountVariants ==
  {"drop", "extra", "small", "ratio", "extra_small", "extra_short",
   "extra_narrow", "extra_flat", "extra_slim"}

ExtraRect(w, h) == Rect(Pos(0), Pos(2), w, h, Gray(128))
ExtraSquare(size) == ExtraRect(size, size)

Varied(chart, variant) ==
  CASE variant = "drop" ->
         [chart EXCEPT !.rects = SubSeq(chart.rects, 1, Len(chart.rects) - 1)]
    [] variant = "extra" ->
         [chart EXCEPT !.rects = Append(chart.rects, ExtraSquare(BoxSize))]
    [] variant = "small" ->
         [chart EXCEPT !.rects[1].w = BOX_MIN_SIZE, !.rects[1].h = BOX_MIN_SIZE]
    [] variant = "ratio" ->
         [chart EXCEPT !.rects[20].w = 30, !.rects[20].h = 25]
    [] variant = "extra_small" ->
         [chart EXCEPT !.rects = Append(chart.rects, ExtraSquare(BOX_MIN_SIZE))]
    \* wide enough, one pixel too low
    [] variant = "extra_short" ->
         [chart EXCEPT !.rects =
            Append(chart.rects, ExtraRect(BOX_MIN_SIZE + 1, BOX_MIN_SIZE))]
    \* high enough, one pixel too narrow
    [] variant = "extra_narrow" ->
         [chart EXCEPT !.rects =
            Append(chart.rects, ExtraRect(BOX_MIN_SIZE, BOX_MIN_SIZE + 1))]
    \* large enough, w / h = 26 / 21 > 1.2
    [] variant = "extra_flat" ->
         [chart EXCEPT !.rects =
            Append(chart.rects, ExtraRect(BOX_MIN_SIZE + 6, BOX_MIN_SIZE + 1))]
    \* large enough, w / h = 21 / 27 < 0.8
    [] variant = "extra_slim" ->
         [chart EXCEPT !.rects =
            Append(chart.rects, ExtraRect(BOX_MIN_SIZE + 1, BOX_MIN_SIZE + 7))]

\* the chart with a line one pixel high and 10 darker across every square,
\* in the second row of the square's sampling window
Striped(chart) ==
  [chart EXCEPT !.rects =
     chart.rects \o
     [i \in 1..Len(chart.rects) |->
        LET r == chart.rects[i]
        IN Rect(r.x, r.y + PadLow(Min(r.w, r.h)) + 1, r.w, 1,
                Gray(Max(0, r.xyz[2] - 10)))]]

\* variants of the frame for the crop
Unframed(chart) == [Framed(chart) EXCEPT !.red = <<>>]
SmallOutline(chart) ==
  [Framed(chart) EXCEPT !.red = << [x |-> Border, y |-> Border, w |-> 5,
                                   h |-> 5, xyz |-> "red"] >>]

RampStarts == {43, 44, 45, 48}
RampSteps == {17, 18, 19}
LumThresholds == {LOW_LIGHT_BOOST_AVG_LUMINANCE_THRESH - 1,
                  LOW_LIGHT_BOOST_AVG_LUMINANCE_THRESH}
DeltaThresholds == {LOW_LIGHT_BOOST_AVG_DELTA_LUMINANCE_THRESH,
                    LOW_LIGHT_BOOST_AVG_DELTA_LUMINANCE_THRESH + 1}

\* a call: the frame and the thresholds, with how the frame was made (canon:
\* the capture in canonical orientation, orient: the orientation of img)
Input(canon, orient, t, d) ==
  [img |-> Oriented(canon, orient), canon |-> canon, orient |-> orient,
   avg_luminance_threshold |-> t, avg_delta_luminance_threshold |-> d]

DefaultInput(canon, orient) ==
  Input(canon, orient, LOW_LIGHT_BOOST_AVG_LUMINANCE_THRESH,
        LOW_LIGHT_BOOST_AVG_DELTA_LUMINANCE_THRESH)

ThresholdInputs ==
  { Input(Framed(ShapedChart(RampLum(a, s), "square")), <<>>, t, d) :
      a \in RampStarts, s \in RampSteps, t \in LumThresholds,
      d \in DeltaThresholds }

OrientationInputs ==
  { DefaultInput(Framed(ShapedChart(RampLum(r[1], r[2]), shape)), o) :
      r \in {<<0, 1>>, <<45, 18>>}, shape \in Shapes, o \in Orientations }

CornerInputs ==
  { DefaultInput(Framed(ShapedChart(CornerLum(tl, bl, tr, br), "square")), <<>>) :
      tl \in 0..MaxCornerLum, bl \in 0..MaxCornerLum,
      tr \in 0..MaxCornerLum, br \in 0..MaxCornerLum }

CountInputs ==
  { DefaultInput(Framed(Varied(ShapedChart(RampLum(45, 18), "square"), v)), <<>>) :
      v \in CountVariants }

CropInputs ==
  { DefaultInput(Unframed(ShapedChart(RampLum(45, 18), "square")), <<>>),
    DefaultInput(SmallOutline(ShapedChart(RampLum(45, 18), "square")), <<>>) }

\* squares that are not of one neutral value
ColourInputs ==
  { DefaultInput(Framed(ShapedChart(TintedRamp(44, 18), "square")), <<>>),
    DefaultInput(Framed(Striped(ShapedChart(RampLum(48, 18), "square"))), <<>>) }

Inputs ==
  ThresholdInputs \cup OrientationInputs \cup CornerInputs \cup CountInputs
  \cup CropInputs \cup ColourInputs

\* the calls made, <<file_stem, arguments>>: the caller analyses a capture
\* under the file stem test_name + "_camera2" and another one under
\* test_name + "_camera_extension"
Calls ==
  ({"_camera2"} \X Inputs)
  \cup ({"_camera_extension"}
        \X (ThresholdInputs \cup OrientationInputs \cup ColourInputs))

(***************************************************************************)
(* collect_data (utils/preview_stabilization_utils.py): the state of a     *)
(* call and of the thread it starts                                        *)
(***************************************************************************)
NUM_ROTATIONS == 24

VARIABLES
  c_pc,           \* where the call of collect_data is
  rot_rig,        \* the argument rot_rig['cntl']
  tablet_device,  \* the argument tablet_device
  serial_port,    \* the local serial_port
  p,              \* the thread p: its state and the servo speed it was given
  rotations,      \* the rotations the thread has made
  camera,         \* what the camera is doing
  recording_obj   \* the local recording_obj

collect_vars == <<c_pc, rot_rig, tablet_device, serial_port, p, rotations,
                  camera, recording_obj>>

NoThread == [state |-> "none", servo_speed |-> "", serial_port |-> "None"]

\* the state before collect_data is called
CollectIdle ==
  /\ c_pc = "idle"
  /\ rot_rig = ""
  /\ tablet_device = FALSE
  /\ serial_port = "None"
  /\ p = NoThread
  /\ rotations = 0
  /\ camera = "idle"
  /\ recording_obj = "None"

(***************************************************************************)
(* verify_preview_stabilization (utils/preview_stabilization_utils.py)     *)
(***************************************************************************)
\* degrees
MIN_PHONE_MOVEMENT_ANGLE == 5
\* _PREVIEW_STABILIZATION_FACTOR = 0.7 and, for sizes wider than 16:9,
\* 0.7 * 1.1, which is the double 0.77; kept as hundredths
PREVIEW_STABILIZATION_FACTOR == 70
PREVIEW_STABILIZATION_FACTOR_WIDE == 77

\* the angles measured range over 0..MaxAngle degrees
MaxAngle == 100

\* a size 'WxH' is kept as <<W, H>>: split('x') and int() give W and H
VideoSizes == {<<1920, 1080>>, <<1280, 720>>, <<640, 480>>, <<2400, 1080>>}

VARIABLES
  v_pc,              \* where the call of verify_preview_stabilization is
  video_size,        \* recording_obj['videoSize']
  max_camera_angle,  \* the local max_camera_angle
  max_gyro_angle,    \* the local max_gyro_angle
  v_result           \* what the call raised or returned

verify_vars == <<v_pc, video_size, max_camera_angle, max_gyro_angle, v_result>>

\* failure_msg = None
None == <<>>

VerifyIdle ==
  /\ v_pc = "idle"
  /\ video_size = <<0, 0>>
  /\ max_camera_angle = 0
  /\ max_gyro_angle = 0
  /\ v_result = [raised |-> FALSE, gyro |-> 0, cam |-> 0, failure |-> None]

(***************************************************************************)
(* test_preview_stabilization (tests/sensor_fusion)                        *)
(***************************************************************************)
TARGET_PREVIEW_SIZES == <<<<1920, 1080>>, <<1280, 720>>, <<640, 480>>>>
\* zoom ratios in hundredths: _ZOOM_RATIO_UW = 0.9, _ZOOM_RATIO_W = 1.0
ZOOM_RATIO_UW == 90
ZOOM_RATIO_W == 100

VARIABLES
  t_pc,                   \* where the test is
  test_zoom_ratios,       \* the local test_zoom_ratios
  preview_sizes_to_test,  \* the local preview_sizes_to_test
  size_index,             \* position of the outer loop in preview_sizes_to_test
  zoom_index,             \* position of the inner loop in test_zoom_ratios
  stabilization_result,   \* the dict stabilization_result, in insertion order
  verified,               \* what verify_preview_stabilization returned
  test_failures           \* the local test_failures

stabilization_vars ==
  <<t_pc, test_zoom_ratios, preview_sizes_to_test, size_index, zoom_index,
    stabilization_result, verified, test_failures>>

StabilizationIdle ==
  /\ t_pc = "idle"
  /\ test_zoom_ratios = <<>>
  /\ preview_sizes_to_test = <<>>
  /\ size_index = 0
  /\ zoom_index = 0
  /\ stabilization_result = <<>>
  /\ verified = <<>>
  /\ test_failures = <<>>

(***************************************************************************)
(* preview_over_zoom_range (utils/preview_stabilization_utils.py)          *)
(***************************************************************************)
SKIP_INITIAL_FRAMES == 15

\* a recording has up to MaxFrames capture results and frames
MaxFrames == 18

VARIABLES
  z_pc,             \* where the call of preview_over_zoom_range is
  capture_metadata, \* preview_rec_obj['captureMetadata']
  extracted,        \* what extract_all_frames_from_video returned
  capture_results,  \* the local capture_results
  file_list         \* the local file_list

zoom_range_vars == <<z_pc, capture_metadata, extracted, capture_results,
                     file_list>>

ZoomRangeIdle ==
  /\ z_pc = "idle"
  /\ capture_metadata = <<>>
  /\ extracted = <<>>
  /\ capture_results = <<>>
  /\ file_list = <<>>

(***************************************************************************)
(* test_multi_camera_switch (tests/scene7): the crossover point            *)
(***************************************************************************)
\* the recording's capture results are up to MaxFirstRun with one physical
\* id, then up to MaxNextRun with a second, then up to MaxNextRun with a third
MaxFirstRun == 17
MaxNextRun == 2

VARIABLES
  m_pc,                    \* where the test is
  switch_capture_results,  \* the test's local capture_results
  switch_file_list,        \* the test's local file_list
  physical_id_before,      \* the local physical_id_before
  counter,                 \* the local counter
  lens_changed,            \* the local lens_changed
  crossover                \* img_uw_file, capture_result_uw, img_w_file,
                           \* capture_result_w

switch_vars == <<m_pc, switch_capture_results, switch_file_list,
                 physical_id_before, counter, lens_changed, crossover>>

NoFrame == [file_of_frame |-> 0]
NoCaptureResult == [result_of_frame |-> 0, activePhysicalId |-> "None"]
NoCrossover == [img_uw_file |-> NoFrame, capture_result_uw |-> NoCaptureResult,
                img_w_file |-> NoFrame, capture_result_w |-> NoCaptureResult]

SwitchIdle ==
  /\ m_pc = "idle"
  /\ switch_capture_results = <<>>
  /\ switch_file_list = <<>>
  /\ physical_id_before = "None"
  /\ counter = 0
  /\ lens_changed = FALSE
  /\ crossover = NoCrossover

(***************************************************************************)
(* launch_and_take_capture (utils/ui_interaction_utils.py)                 *)
(***************************************************************************)
VARIABLES
  l_pc,             \* where the call of launch_and_take_capture is
  pkg_name,         \* the argument pkg_name
  steps,            \* what was done on the device, in order
  exception,        \* the exception being raised
  img_path_on_dut   \* the local img_path_on_dut

launch_vars == <<l_pc, pkg_name, steps, exception, img_path_on_dut>>

LaunchIdle ==
  /\ l_pc = "idle"
  /\ pkg_name = ""
  /\ steps = <<>>
  /\ exception = "None"
  /\ img_path_on_dut = "unset"

(***************************************************************************)
(* verify_lens_intrinsics_sample (tests/sensor_fusion/                     *)
(* test_lens_intrinsic_calibration.py)                                     *)
(***************************************************************************)
\* a recording has up to MaxCaptureResults capture results
MaxCaptureResults == 3

VARIABLES
  i_pc,             \* where the call of verify_lens_intrinsics_sample is
  intrinsics_capture_results,  \* recording_obj['captureMetadata']
  failure_msg       \* what the call returned: the parts of the message

intrinsics_vars == <<i_pc, intrinsics_capture_results, failure_msg>>

IntrinsicsIdle ==
  /\ i_pc = "idle"
  /\ intrinsics_capture_results = <<>>
  /\ failure_msg = <<>>

\* the variables of the tests and utilities other than the two above
other_vars == <<verify_vars, stabilization_vars,
               zoom_range_vars,
               switch_vars,
               launch_vars,
               intrinsics_vars>>

OthersIdle ==
  /\ VerifyIdle
  /\ StabilizationIdle
  /\ ZoomRangeIdle
  /\ SwitchIdle
  /\ LaunchIdle
  /\ IntrinsicsIdle

(***************************************************************************)
(* analyze_low_light_scene_capture                                         *)
(***************************************************************************)
VARIABLES
  pc,               \* where the call is
  file_stem,        \* the call's argument file_stem
  input,            \* the call's other arguments
  img,              \* the local img
  boxes,            \* the local boxes
  regions,          \* the local regions
  sorted_regions,   \* the local sorted_regions
  hilbert_ordered,  \* the local hilbert_ordered
  avg,              \* the local avg
  delta_avg,        \* the local delta_avg
  files,            \* the files written, in the order written
  raised,           \* the exception the call raised
  calls             \* the cv2 calls _correct_image_rotation made

analysis_vars ==
  <<pc, file_stem, input, img, boxes, regions, sorted_regions, hilbert_ordered,
    avg, delta_avg, files, raised, calls>>

vars == <<analysis_vars, collect_vars, other_vars>>

\* for each of these parts, the variables of all the other parts
beside_verify ==
  <<analysis_vars, collect_vars, stabilization_vars, zoom_range_vars,
    switch_vars, launch_vars, intrinsics_vars>>
beside_stabilization ==
  <<analysis_vars, collect_vars, verify_vars, zoom_range_vars, switch_vars,
    launch_vars, intrinsics_vars>>
beside_zoom_range ==
  <<analysis_vars, collect_vars, verify_vars, stabilization_vars,
    switch_vars, launch_vars, intrinsics_vars>>
beside_switch ==
  <<analysis_vars, collect_vars, verify_vars, stabilization_vars,
    zoom_range_vars, launch_vars, intrinsics_vars>>
beside_launch ==
  <<analysis_vars, collect_vars, verify_vars, stabilization_vars,
    zoom_range_vars, switch_vars, intrinsics_vars>>
beside_intrinsics ==
  <<analysis_vars, collect_vars, verify_vars, stabilization_vars,
    zoom_range_vars, switch_vars, launch_vars>>

NoImage == [w |-> 0, h |-> 0, bg |-> NoXYZ, rects |-> <<>>, red |-> <<>>,
            marks |-> <<>>]
NoInput == [img |-> NoImage, canon |-> NoImage, orient |-> <<>>,
            avg_luminance_threshold |-> 0, avg_delta_luminance_threshold |-> 0]
NoError == [kind |-> "none", actual |-> Ratio(0, 1), expected |-> 0]

\* an exception with the actual and expected values of its message
Error(kind, actual, expected) ==
  [kind |-> kind, actual |-> actual, expected |-> expected]

\* a file written; its path is file_stem followed by '_' and name
File(name, content) == [name |-> name, content |-> content]

Init ==
  /\ pc = "idle"
  /\ file_stem = ""
  /\ input = NoInput
  /\ img = NoImage
  /\ boxes = <<>>
  /\ regions = <<>>
  /\ sorted_regions = <<>>
  /\ hilbert_ordered = <<>>
  /\ avg = Ratio(0, 1)
  /\ delta_avg = Ratio(0, 1)
  /\ files = <<>>
  /\ raised = NoError
  /\ calls = <<>>
  /\ CollectIdle
  /\ OthersIdle

\* the call of analyze_low_light_scene_capture(file_stem, img, ...)
Analyze(stem, in) ==
  /\ pc = "idle"
  /\ pc' = "crop"
  /\ file_stem' = stem
  /\ input' = in
  /\ img' = in.img
  /\ UNCHANGED <<collect_vars, other_vars, boxes, regions, sorted_regions,
                 hilbert_ordered, avg, delta_avg, files, raised, calls>>

\* lines 378-380: cv2.imwrite raises for an empty image
CropStep ==
  /\ pc = "crop"
  /\ LET cropped == Crop(img)
     IN /\ img' = cropped
        /\ IF IsEmptyImage(cropped)
           THEN /\ files' = Append(files, File("original.jpg", img))
                /\ raised' = Error("cv2", Ratio(0, 1), 0)
                /\ pc' = "raised"
           ELSE /\ files' = files \o << File("original.jpg", img),
                                        File("cropped.jpg", cropped) >>
                /\ raised' = raised
                /\ pc' = "find_boxes"
  /\ UNCHANGED <<collect_vars, other_vars, file_stem, input, boxes, regions,
                 sorted_regions, hilbert_ordered, avg, delta_avg, calls>>

\* faulty variant: the count check misses a surplus of boxes
CountMismatchLt(n) == n < EXPECTED_NUM_OF_BOXES

\* len(boxes) != _EXPECTED_NUM_OF_BOXES
CountMismatch(n) == n # EXPECTED_NUM_OF_BOXES

\* lines 381-388
FindBoxesStep ==
  /\ pc = "find_boxes"
  /\ LET found == FindBoxes(img)
     IN /\ boxes' = found
        /\ IF CountMismatch(Len(found))
           THEN /\ raised' = Error("count", Ratio(Len(found), 1),
                                   EXPECTED_NUM_OF_BOXES)
                /\ pc' = "raised"
           ELSE /\ raised' = raised
                /\ pc' = "sample"
  /\ UNCHANGED <<collect_vars, other_vars, file_stem, input, img, regions,
                 sorted_regions, hilbert_ordered, avg, delta_avg, files,
                 calls>>

\* faulty variant: the sampling draws its windows on the image
SampleStepAnnotating ==
  /\ pc = "sample"
  /\ LET r == ComputeLuminanceRegions(img, boxes)
     IN IF r.raised
        THEN /\ raised' = Error("cv2", Ratio(0, 1), 0)
             /\ pc' = "raised"
             /\ UNCHANGED <<img, regions, sorted_regions>>
        ELSE /\ regions' = r.value
             /\ sorted_regions' = SortByColumns(r.value)
             /\ img' = DrawLuminance(img, r.value)
             /\ raised' = raised
             /\ pc' = "rotate"
  /\ UNCHANGED <<collect_vars, other_vars, file_stem, input, boxes,
                 hilbert_ordered, avg, delta_avg, files, calls>>

\* lines 390-393; the failure is cv2.error or IndexError
SampleStep ==
  /\ pc = "sample"
  /\ LET r == ComputeLuminanceRegions(img, boxes)
     IN IF r.raised
        THEN /\ raised' = Error("cv2", Ratio(0, 1), 0)
             /\ pc' = "raised"
             /\ UNCHANGED <<regions, sorted_regions>>
        ELSE /\ regions' = r.value
             /\ sorted_regions' = SortByColumns(r.value)
             /\ raised' = raised
             /\ pc' = "rotate"
  /\ UNCHANGED <<collect_vars, other_vars, file_stem, input, img, boxes,
                 hilbert_ordered, avg, delta_avg, files, calls>>

\* lines 394-395
RotateStep ==
  /\ pc = "rotate"
  /\ LET r == CorrectImageRotation(img, sorted_regions)
     IN IF r.raised # ""
        THEN /\ raised' = Error(r.raised, Ratio(0, 1), 0)
             /\ pc' = "raised"
             /\ UNCHANGED <<img, files, calls>>
        ELSE /\ img' = r.img
             /\ calls' = r.calls
             /\ files' = Append(files, File("rotated.jpg", r.img))
             /\ raised' = raised
             /\ pc' = "resample"
  /\ UNCHANGED <<collect_vars, other_vars, file_stem, input, boxes, regions,
                 sorted_regions, hilbert_ordered, avg, delta_avg>>

\* lines 399-400; the failure is cv2.error or IndexError
ResampleStep ==
  /\ pc = "resample"
  /\ LET r == ComputeLuminanceRegions(img, boxes)
     IN IF r.raised
        THEN /\ raised' = Error("cv2", Ratio(0, 1), 0)
             /\ pc' = "raised"
             /\ UNCHANGED <<regions, sorted_regions>>
        ELSE /\ regions' = r.value
             /\ sorted_regions' = SortByColumns(r.value)
             /\ raised' = raised
             /\ pc' = "draw"
  /\ UNCHANGED <<collect_vars, other_vars, file_stem, input, img, boxes,
                 hilbert_ordered, avg, delta_avg, files, calls>>

\* faulty variant: the regions are sampled again on the annotated image
DrawStepResampling ==
  /\ pc = "draw"
  /\ img' = DrawLuminance(img, regions)
  /\ regions' = ComputeLuminanceRegions(img', boxes).value
  /\ sorted_regions' = SortByColumns(regions')
  /\ files' = Append(files, File("result.jpg", img'))
  /\ pc' = "reorder"
  /\ UNCHANGED <<collect_vars, other_vars, file_stem, input, boxes,
                 hilbert_ordered, avg, delta_avg, raised, calls>>

\* lines 402-403
DrawStep ==
  /\ pc = "draw"
  /\ img' = DrawLuminance(img, regions)
  /\ files' = Append(files, File("result.jpg", img'))
  /\ pc' = "reorder"
  /\ UNCHANGED <<collect_vars, other_vars, file_stem, input, boxes, regions,
                 sorted_regions, hilbert_ordered, avg, delta_avg, raised,
                 calls>>

\* the values _plot_successive_difference plots
SuccessiveDifference(luminance_values) ==
  [i \in 1..(Len(luminance_values) - 1) |->
     At(luminance_values, i) - At(luminance_values, i - 1)]

\* faulty variant: the plots are not made before the thresholds are checked
ReorderStepWithoutPlots ==
  /\ pc = "reorder"
  /\ hilbert_ordered' = HilbertOrdered(sorted_regions)
  /\ pc' = "evaluate"
  /\ UNCHANGED <<collect_vars, other_vars, file_stem, input, img, boxes,
                 regions, sorted_regions, avg, delta_avg, files, raised,
                 calls>>

\* lines 409-428
ReorderStep ==
  /\ pc = "reorder"
  /\ hilbert_ordered' = HilbertOrdered(sorted_regions)
  /\ files' = files \o
       << File("luminance_plot.png", LuminanceValues(hilbert_ordered')),
          File("luminance_difference_between_successive_boxes_plot.png",
               SuccessiveDifference(LuminanceValues(hilbert_ordered'))) >>
  /\ pc' = "evaluate"
  /\ UNCHANGED <<collect_vars, other_vars, file_stem, input, img, boxes,
                 regions, sorted_regions, avg, delta_avg, raised, calls>>

\* lines 429-445
EvaluateStep ==
  /\ pc = "evaluate"
  /\ avg' = ComputeAvg(hilbert_ordered)
  /\ delta_avg' = ComputeAvgDeltaOfSuccessiveBoxes(hilbert_ordered)
  /\ IF RatioLt(avg', input.avg_luminance_threshold)
     THEN /\ raised' = Error("luminance", avg', input.avg_luminance_threshold)
          /\ pc' = "raised"
     ELSE IF RatioLt(delta_avg', input.avg_delta_luminance_threshold)
     THEN /\ raised' = Error("delta", delta_avg',
                             input.avg_delta_luminance_threshold)
          /\ pc' = "raised"
     ELSE /\ raised' = raised
          /\ pc' = "returned"
  /\ UNCHANGED <<collect_vars, other_vars, file_stem, input, img, boxes,
                 regions, sorted_regions, hilbert_ordered, files, calls>>

Next ==
  \/ \E call \in Calls : Analyze(call[1], call[2])
  \/ CropStep
  \/ FindBoxesStep
  \/ SampleStep
  \/ RotateStep
  \/ ResampleStep
  \/ DrawStep
  \/ ReorderStep
  \/ EvaluateStep

Spec == Init /\ [][Next]_vars

(***************************************************************************)
(* collect_data                                                            *)
(***************************************************************************)
\* str.lower() on the controller names used
Lower(str) == IF str = "Arduino" THEN "arduino" ELSE str

\* lines 65-72: the call, and the serial port of an arduino controller
CollectData(tablet, cntl) ==
  /\ c_pc = "idle"
  /\ rot_rig' = cntl
  /\ tablet_device' = tablet
  /\ serial_port' = IF Lower(cntl) = Lower("Arduino") THEN "arduino_port"
                    ELSE "None"
  /\ c_pc' = "thread"
  /\ UNCHANGED <<analysis_vars, other_vars, p, rotations, camera,
                 recording_obj>>

\* lines 73-90: p = threading.Thread(target=rotation_rig, ...); p.start()
StartThread ==
  /\ c_pc = "thread"
  /\ p' = [state |-> "running",
           servo_speed |-> IF tablet_device
                             THEN "ARDUINO_SERVO_SPEED_STABILIZATION_TABLET"
                             ELSE "ARDUINO_SERVO_SPEED_STABILIZATION",
           serial_port |-> serial_port]
  /\ c_pc' = "events"
  /\ UNCHANGED <<analysis_vars, other_vars, rot_rig, tablet_device,
                 serial_port, rotations, camera, recording_obj>>

\* line 92: cam.start_sensor_events()
StartSensorEvents ==
  /\ c_pc = "events"
  /\ camera' = "sensor_events"
  /\ c_pc' = "sleep"
  /\ UNCHANGED <<analysis_vars, other_vars, rot_rig, tablet_device,
                 serial_port, p, rotations, recording_obj>>

\* line 92: cam.start_sensor_events() raises
FailSensorEvents ==
  /\ c_pc = "events"
  /\ c_pc' = "raised"
  /\ UNCHANGED <<analysis_vars, other_vars, rot_rig, tablet_device,
                 serial_port, p, rotations, camera, recording_obj>>

\* line 94: time.sleep(_VIDEO_DELAY_TIME)
Sleep ==
  /\ c_pc = "sleep"
  /\ c_pc' = "record"
  /\ UNCHANGED <<analysis_vars, other_vars, rot_rig, tablet_device,
                 serial_port, p, rotations, camera, recording_obj>>

\* lines 97-101: the caller enters cam.do_preview_recording
BeginRecording ==
  /\ c_pc = "record"
  /\ camera' = "recording"
  /\ c_pc' = "recording"
  /\ UNCHANGED <<analysis_vars, other_vars, rot_rig, tablet_device,
                 serial_port, p, rotations, recording_obj>>

\* lines 99-104: cam.do_preview_recording returns the recording object
EndRecording ==
  /\ c_pc = "recording"
  /\ camera' = "sensor_events"
  /\ recording_obj' = "recording"
  /\ c_pc' = "join"
  /\ UNCHANGED <<analysis_vars, other_vars, rot_rig, tablet_device,
                 serial_port, p, rotations>>

\* lines 99-101: cam.do_preview_recording raises
FailRecording ==
  /\ c_pc = "recording"
  /\ camera' = "sensor_events"
  /\ c_pc' = "raised"
  /\ UNCHANGED <<analysis_vars, other_vars, rot_rig, tablet_device,
                 serial_port, p, rotations, recording_obj>>

\* faulty variant: the caller returns without waiting for the thread
JoinWithoutWaiting ==
  /\ c_pc = "join"
  /\ c_pc' = "returned"
  /\ UNCHANGED <<analysis_vars, other_vars, rot_rig, tablet_device,
                 serial_port, p, rotations, camera, recording_obj>>

\* lines 107-109: p.join() returns once the thread has ended, then
\* collect_data returns recording_obj
Join ==
  /\ c_pc = "join"
  /\ p.state = "finished"
  /\ c_pc' = "returned"
  /\ UNCHANGED <<analysis_vars, other_vars, rot_rig, tablet_device,
                 serial_port, p, rotations, camera, recording_obj>>

\* the thread p: rotation_rig makes _NUM_ROTATIONS rotations and ends
RotationRig ==
  /\ p.state = "running"
  /\ IF rotations < NUM_ROTATIONS
     THEN rotations' = rotations + 1 /\ p' = p
     ELSE rotations' = rotations /\ p' = [p EXCEPT !.state = "finished"]
  /\ UNCHANGED <<analysis_vars, other_vars, c_pc, rot_rig, tablet_device,
                 serial_port, camera, recording_obj>>

CollectNext ==
  \/ \E tablet \in BOOLEAN, cntl \in {"arduino", "Arduino", "canakit"} :
       CollectData(tablet, cntl)
  \/ StartThread
  \/ StartSensorEvents
  \/ FailSensorEvents
  \/ Sleep
  \/ BeginRecording
  \/ EndRecording
  \/ FailRecording
  \/ Join
  \/ RotationRig

CollectSpec == Init /\ [][CollectNext]_vars

(***************************************************************************)
(* verify_preview_stabilization                                            *)
(***************************************************************************)
\* faulty variant: the same factor for every size
PreviewStabilizationFactorFlat(size) == PREVIEW_STABILIZATION_FACTOR

\* lines 188-192: int(w_x_h[0])/int(w_x_h[1]) > 16/9 is w * 9 > h * 16
PreviewStabilizationFactor(size) ==
  IF size[1] * 9 > size[2] * 16
    THEN PREVIEW_STABILIZATION_FACTOR_WIDE
    ELSE PREVIEW_STABILIZATION_FACTOR

\* lines 194-201: the message names the size, the angles and the factor
FailureMsg(size, cam_angle, gyro_angle, factor) ==
  <<"preview not stabilized enough", size, cam_angle, gyro_angle, factor>>

\* lines 182-218, from the two angles measured (lines 166 and 175): the
\* exception of line 184, or the dictionary of line 217.
\* max_camera_angle >= max_gyro_angle * factor, with the factor in hundredths
VerifyPreviewStabilization(size, cam_angle, gyro_angle) ==
  IF gyro_angle < MIN_PHONE_MOVEMENT_ANGLE
    THEN [raised |-> TRUE, gyro |-> gyro_angle, cam |-> cam_angle,
          failure |-> None]
    ELSE LET factor == PreviewStabilizationFactor(size)
         IN  [raised |-> FALSE, gyro |-> gyro_angle, cam |-> cam_angle,
              failure |-> IF cam_angle * 100 >= gyro_angle * factor
                            THEN FailureMsg(size, cam_angle, gyro_angle, factor)
                            ELSE None]

\* a call of verify_preview_stabilization on a recording of the given size
\* in which the two angles are measured
Verify(size, cam_angle, gyro_angle) ==
  /\ v_pc = "idle"
  /\ video_size' = size
  /\ max_camera_angle' = cam_angle
  /\ max_gyro_angle' = gyro_angle
  /\ v_result' = VerifyPreviewStabilization(size, cam_angle, gyro_angle)
  /\ v_pc' = IF v_result'.raised THEN "raised" ELSE "returned"
  /\ UNCHANGED beside_verify

\* one call, on any size and angles
VerifyNext ==
  /\ v_pc = "idle"
  /\ \E size \in VideoSizes, cam_angle \in 0..MaxAngle,
        gyro_angle \in 0..MaxAngle :
       Verify(size, cam_angle, gyro_angle)

VerifySpec == Init /\ [][VerifyNext]_vars

(***************************************************************************)
(* test_preview_stabilization                                              *)
(***************************************************************************)
\* the preview sizes the camera may support, as cam.get_supported_preview_sizes
\* lists them
SupportedPreviewSizes ==
  { <<<<640, 480>>, <<1280, 720>>, <<1920, 1080>>, <<3840, 2160>>>>,
    <<<<1280, 720>>, <<1920, 1080>>>>,
    <<<<320, 240>>, <<640, 480>>>>,
    <<<<3840, 2160>>>> }

\* android.control.zoomRatioRange[0], in hundredths
ZoomRangeMinima == {60, 95, 100}

\* <<max_camera_angle, max_gyro_angle>> of a recording: stabilized, not
\* stabilized, phone not moved
MeasuredAngles == {<<6, 10>>, <<7, 10>>, <<2, 4>>}

\* lines 46-48: the supported sizes that are target sizes, in the order given
GetPreviewSizes(supported) ==
  LET Targeted(size) == size \in Range(TARGET_PREVIEW_SIZES)
  IN  SelectSeq(supported, Targeted)

\* d[key] = value on a dict kept as the sequence of its items
DictSet(d, key, value) ==
  IF \E i \in 1..Len(d) : d[i].key = key
    THEN [i \in 1..Len(d) |->
            IF d[i].key = key THEN [key |-> key, value |-> value] ELSE d[i]]
    ELSE Append(d, [key |-> key, value |-> value])

\* the test's lines 151-154: the failures of the items of the dict
RECURSIVE TestFailures(_)
TestFailures(d) ==
  IF d = <<>> THEN <<>>
  ELSE (IF Head(d).value.failure = None THEN <<>>
        ELSE <<Head(d).value.failure>>) \o TestFailures(Tail(d))

\* the test's lines 110-128 on a camera with the given zoom range and sizes
TestPreviewStabilization(zoom_min, supported) ==
  /\ t_pc = "idle"
  /\ test_zoom_ratios' = IF zoom_min < ZOOM_RATIO_W
                           THEN <<ZOOM_RATIO_W, Max(ZOOM_RATIO_UW, zoom_min)>>
                           ELSE <<ZOOM_RATIO_W>>
  /\ preview_sizes_to_test' = GetPreviewSizes(supported)
  /\ size_index' = 1
  /\ zoom_index' = 1
  /\ stabilization_result' = <<>>
  /\ t_pc' = "loop"
  /\ UNCHANGED <<beside_stabilization, verified,
                 test_failures>>

\* the test's lines 129-148, one pass of the inner loop: the recording made
\* and pulled shows the given angles; verify_preview_stabilization raises, or
\* its result is stored under preview_size
RecordAndVerify(angles) ==
  /\ t_pc = "loop"
  /\ size_index <= Len(preview_sizes_to_test)
  /\ LET preview_size == preview_sizes_to_test[size_index]
         zoom_ratio == test_zoom_ratios[zoom_index]
         result == VerifyPreviewStabilization(preview_size, angles[1],
                                              angles[2])
     IN  IF result.raised
           THEN /\ t_pc' = "raised_not_moved"
                /\ UNCHANGED <<size_index, zoom_index, stabilization_result,
                               verified>>
           ELSE /\ stabilization_result' =
                     DictSet(stabilization_result, preview_size, result)
                /\ verified' = Append(verified,
                                      [preview_size |-> preview_size,
                                       zoom_ratio |-> zoom_ratio,
                                       failure |-> result.failure])
                /\ IF zoom_index < Len(test_zoom_ratios)
                     THEN zoom_index' = zoom_index + 1
                          /\ size_index' = size_index
                     ELSE zoom_index' = 1 /\ size_index' = size_index + 1
                /\ t_pc' = t_pc
  /\ UNCHANGED <<beside_stabilization, test_zoom_ratios,
                 preview_sizes_to_test, test_failures>>

\* the test's lines 150-157, after the loops
AssertCriteria ==
  /\ t_pc = "loop"
  /\ size_index > Len(preview_sizes_to_test)
  /\ test_failures' = TestFailures(stabilization_result)
  /\ t_pc' = IF test_failures' # <<>> THEN "raised_test_failures"
             ELSE "returned"
  /\ UNCHANGED <<beside_stabilization, test_zoom_ratios,
                 preview_sizes_to_test, size_index, zoom_index,
                 stabilization_result, verified>>

StabilizationNext ==
  \/ \E zoom_min \in ZoomRangeMinima, supported \in SupportedPreviewSizes :
       TestPreviewStabilization(zoom_min, supported)
  \/ \E angles \in MeasuredAngles : RecordAndVerify(angles)
  \/ AssertCriteria

StabilizationSpec == Init /\ [][StabilizationNext]_vars

(***************************************************************************)
(* preview_over_zoom_range                                                 *)
(***************************************************************************)
\* the capture results of the first n frames recorded, in recording order
CaptureMetadata(n) == [i \in 1..n |-> [result_of_frame |-> i]]

\* the files of the first k frames of the video, in the order of the frames
ExtractedFrames(k) == [i \in 1..k |-> [file_of_frame |-> i]]

\* faulty variant: one frame more is skipped
SkipInitialFramesAndOne(s) == SubSeq(s, SKIP_INITIAL_FRAMES + 2, Len(s))

\* s[_SKIP_INITIAL_FRAMES:]
SkipInitialFrames(s) == SubSeq(s, SKIP_INITIAL_FRAMES + 1, Len(s))

\* lines 314-332 on a recording with n capture results and k frames
PreviewOverZoomRange(n, k) ==
  /\ z_pc = "idle"
  /\ capture_metadata' = CaptureMetadata(n)
  /\ extracted' = ExtractedFrames(k)
  /\ IF n - k # 0
       THEN /\ z_pc' = "raised"
            /\ capture_results' = capture_metadata'
            /\ file_list' = extracted'
       ELSE /\ z_pc' = "returned"
            /\ capture_results' = SkipInitialFrames(capture_metadata')
            /\ file_list' = SkipInitialFrames(extracted')
  /\ UNCHANGED beside_zoom_range

ZoomRangeNext ==
  \E n \in 0..MaxFrames, k \in 0..MaxFrames : PreviewOverZoomRange(n, k)

ZoomRangeSpec == Init /\ [][ZoomRangeNext]_vars

(***************************************************************************)
(* test_multi_camera_switch: the crossover point                           *)
(***************************************************************************)
\* recording_obj['captureMetadata'] of a recording whose active physical
\* camera is "uw" for runs[1] frames, "w" for runs[2], "tele" for runs[3]
SwitchRecording(runs) ==
  [i \in 1..(runs[1] + runs[2] + runs[3]) |->
     [result_of_frame |-> i,
      activePhysicalId |-> IF i <= runs[1] THEN "uw"
                           ELSE IF i <= runs[1] + runs[2] THEN "w"
                           ELSE "tele"]]

\* the frames extracted are as many as the capture results, one fewer
\* or one more
FrameCountOffsets == {-1, 0, 1}

\* not x, for the values physical_id_before takes
Not(x) == x = "None" \/ x = ""

\* s[i] of Python with i >= -1: the entry, or NoFrame for an IndexError
PyIndex(s, i) ==
  IF 0 <= i /\ i < Len(s) THEN s[i + 1]
  ELSE IF i = -1 /\ Len(s) > 0 THEN s[Len(s)]
  ELSE NoFrame

\* the test's lines 357-372
TestMultiCameraSwitch(runs, offset) ==
  /\ m_pc = "idle"
  /\ switch_capture_results' = SkipInitialFrames(SwitchRecording(runs))
  /\ switch_file_list' =
       SkipInitialFrames(
         ExtractedFrames(Max(0, Len(SwitchRecording(runs)) + offset)))
  /\ physical_id_before' = "None"
  /\ counter' = 0
  /\ lens_changed' = FALSE
  /\ m_pc' = "loop"
  /\ UNCHANGED <<beside_switch, crossover>>

\* faulty variant: the loop goes on after the change
CrossoverLoopWithoutBreak ==
  /\ m_pc = "loop"
  /\ counter < Len(switch_capture_results)
  /\ counter' = counter + 1
  /\ LET physical_id == switch_capture_results[counter'].activePhysicalId
         before == IF Not(physical_id_before) THEN physical_id
                   ELSE physical_id_before
     IN  IF before = physical_id
           THEN /\ physical_id_before' = before
                /\ UNCHANGED <<lens_changed, m_pc>>
           ELSE /\ physical_id_before' = physical_id
                /\ lens_changed' = TRUE
                /\ m_pc' = m_pc
  /\ UNCHANGED <<beside_switch, switch_capture_results, switch_file_list,
                 crossover>>

\* the test's lines 374-388, one pass of the loop
CrossoverLoop ==
  /\ m_pc = "loop"
  /\ counter < Len(switch_capture_results)
  /\ counter' = counter + 1
  /\ LET physical_id == switch_capture_results[counter'].activePhysicalId
         before == IF Not(physical_id_before) THEN physical_id
                   ELSE physical_id_before
     IN  IF before = physical_id
           THEN /\ physical_id_before' = before
                /\ UNCHANGED <<lens_changed, m_pc>>
           ELSE /\ physical_id_before' = physical_id
                /\ lens_changed' = TRUE
                /\ m_pc' = "after"
  /\ UNCHANGED <<beside_switch, switch_capture_results, switch_file_list,
                 crossover>>

\* the test's lines 393-401, after the loop has ended or was left
CrossoverFrames ==
  /\ \/ m_pc = "after"
     \/ m_pc = "loop" /\ counter = Len(switch_capture_results)
  /\ IF ~lens_changed
       THEN m_pc' = "raised_not_found" /\ crossover' = crossover
       ELSE LET img_uw_file == PyIndex(switch_file_list, counter - 2)
                img_w_file == PyIndex(switch_file_list, counter - 1)
            IN  IF img_uw_file = NoFrame \/ img_w_file = NoFrame
                  THEN m_pc' = "raised_index_error" /\ crossover' = crossover
                  ELSE /\ crossover' =
                            [img_uw_file |-> img_uw_file,
                             capture_result_uw |->
                               At(switch_capture_results, counter - 2),
                             img_w_file |-> img_w_file,
                             capture_result_w |->
                               At(switch_capture_results, counter - 1)]
                       /\ m_pc' = "found"
  /\ UNCHANGED <<beside_switch, switch_capture_results, switch_file_list,
                 physical_id_before, counter, lens_changed>>

SwitchNext ==
  \/ \E runs \in (0..MaxFirstRun) \X (0..MaxNextRun) \X (0..MaxNextRun),
        offset \in FrameCountOffsets :
       TestMultiCameraSwitch(runs, offset)
  \/ CrossoverLoop
  \/ CrossoverFrames

SwitchSpec == Init /\ [][SwitchNext]_vars

(***************************************************************************)
(* launch_and_take_capture                                                 *)
(***************************************************************************)
\* faulty variant: an exception leaves the function at once
OnExceptionUnwind == "raised"

\* lines 184 and 208: an exception raised inside the try goes to the finally
OnException == "finally"

\* a step of the try block: it is done on the device, and returns or raises
TryStep(at, step, raises, next) ==
  /\ l_pc = at
  /\ steps' = Append(steps, step)
  /\ IF raises
       THEN l_pc' = OnException /\ exception' = "Error"
       ELSE l_pc' = next /\ exception' = exception
  /\ UNCHANGED <<beside_launch, pkg_name, img_path_on_dut>>

\* a pop-up button of the try block: waited for and, if there, clicked
TryButton(at, button, outcome, next) ==
  /\ l_pc = at
  /\ steps' = IF outcome \in {"clicked", "click_raised"}
                THEN steps \o <<"wait_" \o button, "click_" \o button>>
                ELSE Append(steps, "wait_" \o button)
  /\ IF outcome \in {"wait_raised", "click_raised"}
       THEN l_pc' = OnException /\ exception' = "Error"
       ELSE l_pc' = next /\ exception' = exception
  /\ UNCHANGED <<beside_launch, pkg_name, img_path_on_dut>>

\* line 183: the call
LaunchAndTakeCapture(pkg) ==
  /\ l_pc = "idle"
  /\ pkg_name' = pkg
  /\ l_pc' = "launch"
  /\ UNCHANGED <<beside_launch, steps, exception, img_path_on_dut>>

\* lines 185-187: the app is launched
LaunchApp(raises) ==
  TryStep("launch", "monkey -p " \o pkg_name \o " 1", raises, "ok_button")

\* lines 190-192
OkButton(outcome) == TryButton("ok_button", "OK", outcome, "done_button")

\* lines 193-195
DoneButton(outcome) == TryButton("done_button", "Done", outcome, "capture")

\* lines 197-198
ImgCapture(raises) == TryStep("capture", "IMG_CAPTURE_CMD", raises, "photo")

\* lines 199-201
TakePhoto(raises) == TryStep("photo", "TAKE_PHOTO_CMD", raises, "find")

\* lines 202-207: the files found on the device; no '.jpg' among them is an
\* AssertionError
FindImage(found) ==
  /\ l_pc = "find"
  /\ steps' = Append(steps, "find")
  /\ CASE found = "raised" ->
            /\ l_pc' = OnException
            /\ exception' = "Error"
            /\ img_path_on_dut' = img_path_on_dut
       [] found = "" ->
            /\ l_pc' = OnException
            /\ exception' = "AssertionError"
            /\ img_path_on_dut' = found
       [] OTHER ->
            /\ l_pc' = "finally"
            /\ exception' = exception
            /\ img_path_on_dut' = found
  /\ UNCHANGED <<beside_launch, pkg_name>>

\* lines 208-210 and 213-222: force_stop_app in the finally, then the return
\* or the exception
ForceStopApp(raises) ==
  /\ l_pc = "finally"
  /\ steps' = Append(steps, "am force-stop " \o pkg_name)
  /\ exception' = IF raises THEN "Error" ELSE exception
  /\ l_pc' = IF exception' = "None" THEN "returned" ELSE "raised"
  /\ UNCHANGED <<beside_launch, pkg_name, img_path_on_dut>>

LaunchNext ==
  \/ \E pkg \in {"com.android.camera2", "com.google.android.GoogleCamera"} :
       LaunchAndTakeCapture(pkg)
  \/ \E raises \in BOOLEAN : LaunchApp(raises)
  \/ \E outcome \in {"absent", "clicked", "wait_raised", "click_raised"} :
       OkButton(outcome)
  \/ \E outcome \in {"absent", "clicked", "wait_raised", "click_raised"} :
       DoneButton(outcome)
  \/ \E raises \in BOOLEAN : ImgCapture(raises)
  \/ \E raises \in BOOLEAN : TakePhoto(raises)
  \/ \E found \in {"DCIM/Camera/IMG_1.jpg", "", "raised"} : FindImage(found)
  \/ \E raises \in BOOLEAN : ForceStopApp(raises)

LaunchSpec == Init /\ [][LaunchNext]_vars

(***************************************************************************)
(* verify_lens_intrinsics_sample                                           *)
(***************************************************************************)
\* a sample with the given timestamp and optical axis (c_x, c_y); the
\* lensIntrinsics are [f_x, f_y, c_x, c_y, s]
IntrinsicsSample(timestamp, c_x, c_y) ==
  [timestamp |-> timestamp, lensIntrinsics |-> <<1500, 1500, c_x, c_y, 0>>]

\* the capture results a recording may hold: without the samples key, or
\* with two samples whose timestamps and optical axes are equal or not
CaptureResultChoices ==
  {[reported |-> FALSE, samples |-> <<>>]}
  \cup {[reported |-> TRUE,
         samples |-> <<IntrinsicsSample(100, 960, 540),
                       IntrinsicsSample(100 + dt, 960 + dx, 540)>>] :
          dt \in {0, 33}, dx \in {0, 2}}

\* lines 39-68: K . (0, 0, 1) normalised is (c_x, c_y)
CalculatePrincipalPoint(k) == <<k[3], k[4]>>

\* the largest entry of a non-empty sequence of numbers
MaxOf(s) == CHOOSE m \in Range(s) : \A x \in Range(s) : x <= m

\* lines 208-225: max(pp_diffs), with math.dist kept as its square
MaxPpDiff(samples) ==
  LET first_point == CalculatePrincipalPoint(samples[1].lensIntrinsics)
      Dist2(a, b) == (a[1] - b[1]) * (a[1] - b[1])
                     + (a[2] - b[2]) * (a[2] - b[2])
  IN  MaxOf([j \in 1..Len(samples) |->
               Dist2(first_point,
                     CalculatePrincipalPoint(samples[j].lensIntrinsics))])

\* lines 209-226: max(timestamp_diffs)
MaxTimestampDiff(samples) ==
  MaxOf([j \in 1..Len(samples) |->
           samples[j].timestamp - samples[1].timestamp])

\* line 238: all(diff > 0 for diff in max_samples_timestamp_diffs[1:])
TimestampsChanged(diffs) ==
  \A j \in 2..Len(diffs) : diffs[j] > 0

\* lines 188-243: the parts of the failure message returned, <<>> for None
VerifyLensIntrinsicsSample(results) ==
  LET Reported(capture_result) == capture_result.reported
      intrinsics_samples_list == SelectSeq(results, Reported)
      n == Len(intrinsics_samples_list)
      max_samples_pp_diffs ==
        [j \in 1..n |-> MaxPpDiff(intrinsics_samples_list[j].samples)]
      max_samples_timestamp_diffs ==
        [j \in 1..n |-> MaxTimestampDiff(intrinsics_samples_list[j].samples)]
  IN  IF n = 0 THEN <<>>
      ELSE (IF \E j \in 1..n : max_samples_pp_diffs[j] # 0 THEN <<>>
            ELSE <<"No variation of principal points found in any samples.">>)
           \o (IF TimestampsChanged(max_samples_timestamp_diffs) THEN <<>>
               ELSE <<"Timestamps in samples did not change.">>)

\* a call on a recording with the given capture results
VerifySamples(results) ==
  /\ i_pc = "idle"
  /\ intrinsics_capture_results' = results
  /\ failure_msg' = VerifyLensIntrinsicsSample(results)
  /\ i_pc' = "returned"
  /\ UNCHANGED beside_intrinsics

\* the recordings: up to MaxCaptureResults capture results
Recordings ==
  UNION {[1..n -> CaptureResultChoices] : n \in 0..MaxCaptureResults}

IntrinsicsNext == \E results \in Recordings : VerifySamples(results)

IntrinsicsSpec == Init /\ [][IntrinsicsNext]_vars

(***************************************************************************)
(* Properties                                                              *)
(***************************************************************************)
Written(name) == \E i \in 1..Len(files) : files[i].name = name
Content(name) == files[CHOOSE i \in 1..Len(files) : files[i].name = name].content
Terminal == pc \in {"raised", "returned"}
\* the count check has run
BoxesCounted == Written("cropped.jpg") /\ pc # "find_boxes"
\* the thresholds have been checked
Evaluated == Terminal /\ hilbert_ordered # <<>>
\* the luminance of the j-th traversal entry, j in 1..16
Lum(j) == hilbert_ordered[j][2]
FirstSixSum == Lum(1) + Lum(2) + Lum(3) + Lum(4) + Lum(5) + Lum(6)
DeltaSum == (Lum(2) - Lum(1)) + (Lum(3) - Lum(2)) + (Lum(4) - Lum(3))
            + (Lum(5) - Lum(4)) + (Lum(6) - Lum(5))
LumThreshold == input.avg_luminance_threshold
DeltaThreshold == input.avg_delta_luminance_threshold

\* C1: once the boxes are counted, a count other than 20 (fewer or more) has
\* raised the count failure carrying the actual count and the expected 20,
\* and a count of 20 never raises it.
C1_CountFailure ==
  BoxesCounted =>
    IF Len(boxes) # 20
      THEN pc = "raised" /\ raised = Error("count", Ratio(Len(boxes), 1), 20)
      ELSE raised.kind # "count"

C1_Witness == pc = "raised" /\ raised.kind = "count" /\ Len(boxes) > 20

\* C2: with the default thresholds, a call that found 20 boxes and whose
\* first 6 traversal entries have a mean luminance >= 90 and a mean
\* successive delta >= 18 returns without raising.
C2_PassesAtDefaults ==
  ( /\ Evaluated
    /\ Len(boxes) = 20
    /\ LumThreshold = 90 /\ DeltaThreshold = 18
    /\ FirstSixSum >= 6 * 90
    /\ DeltaSum >= 5 * 18 )
  => (pc = "returned" /\ raised = NoError)

C2_Witness ==
  /\ pc = "returned" /\ LumThreshold = 90 /\ DeltaThreshold = 18
  /\ FirstSixSum = 6 * 90 /\ DeltaSum = 5 * 18

\* C3: the luminance check is not strict: a mean of the first 6 traversal
\* luminances equal to the configured threshold does not raise the luminance
\* failure, a mean one unit below it does.
C3_LuminanceBoundary ==
  Evaluated =>
    /\ (FirstSixSum = 6 * LumThreshold => raised.kind # "luminance")
    /\ (FirstSixSum = 6 * (LumThreshold - 1) =>
          pc = "raised" /\ raised.kind = "luminance"
          /\ raised.expected = LumThreshold)

C3_Witness ==
  /\ pc = "returned" /\ FirstSixSum = 6 * LumThreshold
  /\ LumThreshold # LOW_LIGHT_BOOST_AVG_LUMINANCE_THRESH

\* C4 as stated: the delta failure is raised exactly when the mean of the 5
\* successive differences is below the configured delta threshold.
C4_DeltaExactlyWhenBelow ==
  Evaluated => (raised.kind = "delta" <=> DeltaSum < 5 * DeltaThreshold)

\* C4 amended: the delta failure is raised exactly when the luminance check
\* has passed and the mean of the 5 successive differences is below the
\* configured delta threshold; a mean equal to the threshold passes.
C4_DeltaAfterLuminance ==
  Evaluated =>
    /\ (raised.kind = "delta" <=>
          (FirstSixSum >= 6 * LumThreshold /\ DeltaSum < 5 * DeltaThreshold))
    /\ (raised.kind = "delta" =>
          pc = "raised" /\ raised.expected = DeltaThreshold)
    /\ ((FirstSixSum >= 6 * LumThreshold /\ DeltaSum = 5 * DeltaThreshold)
          => pc = "returned")

C4_Witness ==
  /\ pc = "raised" /\ raised.kind = "delta"
  /\ DeltaThreshold # LOW_LIGHT_BOOST_AVG_DELTA_LUMINANCE_THRESH
  /\ DeltaSum = 5 * (DeltaThreshold - 1)

\* C5: when the interior squares carry the luminances 0..15 along the
\* traversal order (sorted index HILBERT[j] carries j - 1), the mean of the
\* first 6 is 2.5 and the mean successive delta is 1.0.
SyntheticGrid ==
  /\ Len(sorted_regions) = 20
  /\ \A j \in 1..16 : At(sorted_regions, HILBERT[j])[2] = j - 1

C5_SyntheticGridMetrics ==
  (Evaluated /\ SyntheticGrid) =>
    /\ 2 * avg.num = 5 * avg.den
    /\ delta_avg.num = delta_avg.den
    /\ delta_avg.den # 0

C5_Witness == Evaluated /\ SyntheticGrid /\ avg = Ratio(15, 6)

\* _correct_image_rotation has returned or raised, and sorted_regions still
\* holds the regions it was given
RotationDecided ==
  \/ pc = "resample"
  \/ pc = "raised" /\ raised.kind \in {"ambiguous", "unmapped"}

\* the four corners in the order they are examined, and their luminances in
\* a sorted list of regions
CornerKeys == <<KEY_TOP_LEFT, KEY_BOTTOM_LEFT, KEY_TOP_RIGHT, KEY_BOTTOM_RIGHT>>
CornerLums(sorted) ==
  <<At(sorted, 2)[2], At(sorted, 5)[2], At(sorted, 14)[2], At(sorted, 17)[2]>>

\* the darkest (brightest) corner: the first one examined among those of
\* least (greatest) luminance
DarkestOf(sorted) ==
  LET l == CornerLums(sorted)
  IN CornerKeys[CHOOSE i \in 1..4 : /\ \A j \in 1..4 : l[i] <= l[j]
                                    /\ \A j \in 1..(i - 1) : l[j] > l[i]]
BrightestOf(sorted) ==
  LET l == CornerLums(sorted)
  IN CornerKeys[CHOOSE i \in 1..4 : /\ \A j \in 1..4 : l[i] >= l[j]
                                    /\ \A j \in 1..(i - 1) : l[j] < l[i]]
AllCornersEqual(sorted) ==
  \A i, j \in 1..4 : CornerLums(sorted)[i] = CornerLums(sorted)[j]

\* the corner diagonally opposite a corner
Opposite(corner) ==
  CASE corner = KEY_TOP_LEFT -> KEY_BOTTOM_RIGHT
    [] corner = KEY_BOTTOM_RIGHT -> KEY_TOP_LEFT
    [] corner = KEY_TOP_RIGHT -> KEY_BOTTOM_LEFT
    [] corner = KEY_BOTTOM_LEFT -> KEY_TOP_RIGHT

\* C6: with the darkest corner bottom right and the brightest bottom left,
\* _correct_image_rotation makes no cv2 call and returns the image it was
\* given: the rotated image is the cropped one.
C6_CanonicalUntouched ==
  ( /\ RotationDecided
    /\ DarkestOf(sorted_regions) = KEY_BOTTOM_RIGHT
    /\ BrightestOf(sorted_regions) = KEY_BOTTOM_LEFT )
  => /\ pc = "resample"
     /\ calls = <<>>
     /\ img = Content("cropped.jpg")
     /\ Content("rotated.jpg") = Content("cropped.jpg")

C6_Witness ==
  /\ pc = "resample"
  /\ DarkestOf(sorted_regions) = KEY_BOTTOM_RIGHT
  /\ BrightestOf(sorted_regions) = KEY_BOTTOM_LEFT
  /\ CornerLums(sorted_regions)[4] = 45

\* the sorted regions of the capture in canonical orientation
CanonRegions ==
  LET c == Crop(input.canon)
  IN SortByColumns(ComputeLuminanceRegions(c, FindBoxes(c)).value)

\* the call analyses the canonical frame (darkest corner bottom right,
\* brightest bottom left) rotated by 90 degrees clockwise
RotatedClockwise ==
  /\ input.orient = <<"rot_cw">>
  /\ DarkestOf(CanonRegions) = KEY_BOTTOM_RIGHT
  /\ BrightestOf(CanonRegions) = KEY_BOTTOM_LEFT

\* C7: for the canonical frame rotated 90 degrees clockwise the one cv2 call
\* made is the rotation by 90 degrees counter clockwise, and its result is
\* the canonical frame (cropped).
C7_ClockwiseUndone ==
  (RotationDecided /\ RotatedClockwise)
  => /\ pc = "resample"
     /\ calls = <<"rotate_ccw">>
     /\ img = Rotate(Content("cropped.jpg"), "ROTATE_90_COUNTERCLOCKWISE")
     /\ img = Crop(input.canon)
     /\ Content("rotated.jpg") = Crop(input.canon)

C7_Witness ==
  /\ pc = "resample" /\ RotatedClockwise
  /\ Content("cropped.jpg") # Crop(input.canon)

\* C8: the ambiguity failure is raised exactly when the four corner
\* luminances are all equal; otherwise the darkest and the brightest corner
\* found are two different corners.
C8_AmbiguousIffAllEqual ==
  RotationDecided =>
    /\ (raised.kind = "ambiguous" <=> AllCornersEqual(sorted_regions))
    /\ (~AllCornersEqual(sorted_regions) =>
          FindCorners(sorted_regions)[1].corner
            # FindCorners(sorted_regions)[2].corner)

C8_Witness ==
  pc = "raised" /\ raised.kind = "ambiguous" /\ AllCornersEqual(sorted_regions)

\* C9: for each pair of distinct darkest and brightest corners, the
\* 'brightest square not found' failure is raised exactly when the two are
\* diagonally opposite; for the other pairs the call goes on with the image
\* transformed, and only the pair (bottom right, bottom left) leaves the
\* image without any cv2 call.
C9_LookupTotal ==
  (RotationDecided /\ ~AllCornersEqual(sorted_regions)) =>
    LET d == DarkestOf(sorted_regions)
        b == BrightestOf(sorted_regions)
    IN /\ d # b
       /\ (raised.kind = "unmapped" <=> Opposite(d) = b)
       /\ (Opposite(d) # b =>
             /\ pc = "resample"
             /\ raised = NoError
             /\ (calls = <<>> <=> (d = KEY_BOTTOM_RIGHT /\ b = KEY_BOTTOM_LEFT))
             /\ Content("rotated.jpg") = Cv2Calls(Content("cropped.jpg"), calls))

C9_Witness ==
  /\ pc = "raised" /\ raised.kind = "unmapped"
  /\ DarkestOf(sorted_regions) = KEY_TOP_RIGHT
  /\ BrightestOf(sorted_regions) = KEY_BOTTOM_LEFT

\* C10 as stated: after the orientation transform the regions sampled are
\* the boxes detected on the transformed image.
C10_Redetected ==
  pc = "draw" =>
    {regions[i][1] : i \in 1..Len(regions)} = Range(FindBoxes(img))

\* the contours of the cropped image
Candidates ==
  LET c == Content("cropped.jpg") IN {c.rects[i] : i \in 1..Len(c.rects)}

\* C13: every box _find_boxes returned is the bounding box of a contour of
\* the cropped image, is wider than 20 px, is higher than 20 px and has an
\* aspect ratio w / h within [0.8, 1.2]: no contour that breaks one of the
\* three conditions is in the list.
C13_OnlyAcceptable ==
  pc \notin {"idle", "crop", "find_boxes"} =>
    /\ \A i \in 1..Len(boxes) :
         /\ boxes[i][3] > 20
         /\ boxes[i][4] > 20
         /\ 4 * boxes[i][4] <= 5 * boxes[i][3]
         /\ 5 * boxes[i][3] <= 6 * boxes[i][4]
    /\ Written("cropped.jpg") =>
         /\ Range(boxes) \subseteq {Box(c) : c \in Candidates}
         /\ \A c \in Candidates :
              (c.w <= 20 \/ c.h <= 20 \/ 5 * c.w < 4 * c.h \/ 5 * c.w > 6 * c.h)
                => Box(c) \notin Range(boxes)

\* 20 boxes were accepted and a contour wider than 20 px but only 20 px high
\* was left out
C13_Witness ==
  /\ pc = "sample"
  /\ Len(boxes) = 20
  /\ \E c \in Candidates : c.w > 20 /\ c.h = 20 /\ Box(c) \notin Range(boxes)

\* the indices of the column sorted list at which an entry is found
Places(entry) == {k \in 0..(Len(sorted_regions) - 1) : At(sorted_regions, k) = entry}

\* C14: the traversal ordered sequence has 16 entries; each is the entry of
\* exactly one of the indices 2..17 of the column sorted list, each of these
\* indices is used exactly once, and no entry of the indices 0, 1, 18, 19 is
\* in it.
C14_InteriorPermutation ==
  hilbert_ordered # <<>> =>
    /\ Len(hilbert_ordered) = 16
    /\ Len(sorted_regions) = 20
    /\ \A j \in 1..Len(hilbert_ordered) :
         /\ Cardinality(Places(hilbert_ordered[j])) = 1
         /\ Places(hilbert_ordered[j]) \subseteq 2..17
    /\ \A k \in 2..17 :
         Cardinality({j \in 1..Len(hilbert_ordered) :
                        hilbert_ordered[j] = At(sorted_regions, k)}) = 1
    /\ \A k \in {0, 1, 18, 19} : \A j \in 1..Len(hilbert_ordered) :
         hilbert_ordered[j] # At(sorted_regions, k)

C14_Witness ==
  /\ pc = "evaluate"
  /\ Len(hilbert_ordered) = 16
  /\ hilbert_ordered[16] = At(sorted_regions, 5)
  /\ At(sorted_regions, 1)[2] # hilbert_ordered[16][2]

\* the grid cell <<column, row>> of a sorted index
Cell(k) == <<(k - 2) \div 4, (k - 2) % 4>>
Abs(n) == IF n < 0 THEN -n ELSE n
\* the sorted index of the j-th traversal entry
PlaceOf(j) == CHOOSE k \in 0..19 : k \in Places(hilbert_ordered[j])
HilbertBox(j) == hilbert_ordered[j][1]

\* C19: along the traversal order the grid cells form a path: the first
\* entry is the bottom right cell (column 3, row 3), the last the bottom left
\* cell (column 0, row 3), and two successive entries are cells next to each
\* other in a column or in a row.  The boxes say the same: the first is the
\* rightmost and lowest of the 16, the last the leftmost and lowest, and two
\* successive boxes are one grid step apart along one axis.
C19_ContinuousPath ==
  (hilbert_ordered # <<>> /\ \A j \in 1..16 : Places(hilbert_ordered[j]) # {}) =>
    /\ Cell(PlaceOf(1)) = <<3, 3>>
    /\ Cell(PlaceOf(16)) = <<0, 3>>
    /\ \A j \in 1..15 :
         Abs(Cell(PlaceOf(j))[1] - Cell(PlaceOf(j + 1))[1])
         + Abs(Cell(PlaceOf(j))[2] - Cell(PlaceOf(j + 1))[2]) = 1
    /\ \A j \in 1..16 :
         /\ HilbertBox(j)[1] <= HilbertBox(1)[1]
         /\ HilbertBox(j)[2] <= HilbertBox(1)[2]
         /\ HilbertBox(j)[1] >= HilbertBox(16)[1]
         /\ HilbertBox(j)[2] <= HilbertBox(16)[2]
    /\ \A j \in 1..15 :
         Abs(HilbertBox(j)[1] - HilbertBox(j + 1)[1])
         + Abs(HilbertBox(j)[2] - HilbertBox(j + 1)[2]) = Pitch

C19_Witness ==
  /\ pc = "evaluate"
  /\ PlaceOf(1) = 17 /\ PlaceOf(2) = 13 /\ PlaceOf(3) = 12 /\ PlaceOf(4) = 16
  /\ HilbertBox(4)[1] = HilbertBox(1)[1]
  /\ HilbertBox(4)[2] = HilbertBox(1)[2] - Pitch

\* the group of position k (0-based) of the result of _sort_by_columns:
\* groups of sizes 2, 4, 4, 4, 4, 2
GroupOf(k) == IF k < 2 THEN 0 ELSE IF k >= 18 THEN 5 ELSE ((k - 2) \div 4) + 1
\* how often an element occurs in a list
Occurrences(s, e) == Cardinality({i \in 1..Len(s) : s[i] = e})

\* C20: regions holds the list of 20 pairs given to _sort_by_columns and
\* sorted_regions what it returned.  The result has the same pairs, each as
\* often as the input; read as groups of 2, 4, 4, 4, 4, 2 positions, a box of
\* an earlier group has x not greater than a box of a later group and the
\* boxes of a group are in non-decreasing y; the input list is still the
\* list the sampling returned.
C20_SortedByColumns ==
  (sorted_regions # <<>> /\ Len(regions) = 20) =>
    /\ Len(sorted_regions) = 20
    /\ LET given == SubSeq(regions, 1, 20)
       IN \A e \in Range(given) \cup Range(sorted_regions) :
            Occurrences(sorted_regions, e) = Occurrences(given, e)
    /\ \A k, l \in 0..19 :
         /\ GroupOf(k) < GroupOf(l) =>
              At(sorted_regions, k)[1][1] <= At(sorted_regions, l)[1][1]
         /\ (GroupOf(k) = GroupOf(l) /\ k < l) =>
              At(sorted_regions, k)[1][2] <= At(sorted_regions, l)[1][2]
    /\ pc = "rotate" => regions = ComputeLuminanceRegions(img, boxes).value

\* the input lists the boxes from the last of the sorted order to the first
C20_Witness ==
  /\ pc = "rotate"
  /\ Len(regions) = 20
  /\ SubSeq(regions, 1, 20) = [i \in 1..20 |-> sorted_regions[21 - i]]

\* the index of a corner of the grid in a column sorted list
CornerIndex(corner) ==
  CASE corner = KEY_TOP_LEFT -> 2
    [] corner = KEY_BOTTOM_LEFT -> 5
    [] corner = KEY_TOP_RIGHT -> 14
    [] corner = KEY_BOTTOM_RIGHT -> 17

\* where the cv2 calls made take box b of the cropped image
Moved(b) ==
  LET c == Content("cropped.jpg")
      one == [c EXCEPT !.rects = << Rect(b[1], b[2], b[3], b[4], NoXYZ) >>,
                       !.red = <<>>, !.marks = <<>>]
  IN Box(Cv2Calls(one, calls).rects[1])

\* the sorted regions of the boxes detected on the image as it is now
Redetected == SortByColumns(ComputeLuminanceRegions(img, FindBoxes(img)).value)
\* the sorted regions _correct_image_rotation was given
GivenRegions ==
  SortByColumns(ComputeLuminanceRegions(Content("cropped.jpg"), boxes).value)
\* the grid is symmetric: the transformed image has its boxes where the
\* cropped one had them
SymmetricGrid == Range(FindBoxes(img)) = Range(boxes)

\* C18: when _correct_image_rotation returns (the pair of corners is one of
\* the 8 mapped ones), the box of the darkest corner has been moved to the
\* bottom right corner of the grid and the box of the brightest corner to
\* the bottom left corner.  For a symmetric grid, after the re-sampling the
\* entry of sorted index 17, first of the traversal order, has the luminance
\* of the darkest corner, and the entry of sorted index 5, last of the
\* traversal order, that of the brightest corner.
C18_CornersMoved ==
  /\ pc = "resample" =>
       LET found == FindCorners(sorted_regions)
           dark == At(sorted_regions, CornerIndex(found[1].corner))[1]
           bright == At(sorted_regions, CornerIndex(found[2].corner))[1]
           now == Redetected
       IN /\ At(now, 17)[1] = Moved(dark)
          /\ At(now, 5)[1] = Moved(bright)
  /\ (pc = "evaluate" /\ SymmetricGrid) =>
       LET given == GivenRegions
           found == FindCorners(given)
       IN /\ At(sorted_regions, 17)[2] = found[1].lum
          /\ At(sorted_regions, 5)[2] = found[2].lum
          /\ hilbert_ordered[1] = At(sorted_regions, 17)
          /\ hilbert_ordered[16] = At(sorted_regions, 5)
          /\ \A k \in {2, 5, 14, 17} :
               /\ At(sorted_regions, 17)[2] <= At(given, k)[2]
               /\ At(sorted_regions, 5)[2] >= At(given, k)[2]

\* the darkest corner was top left and the brightest bottom left
C18_Witness ==
  /\ pc = "evaluate" /\ SymmetricGrid
  /\ calls = <<"rotate_cw", "flip0">>
  /\ hilbert_ordered[1][2] < hilbert_ordered[16][2]

\* the sum of the Y channel over the pixels (x0..x1-1, y0..y1-1)
RECURSIVE LumaRowSum(_, _, _, _)
LumaRowSum(image, x0, x1, py) ==
  IF x0 >= x1 THEN 0
  ELSE PixelXYZ(image, x0, py)[2] + LumaRowSum(image, x0 + 1, x1, py)

RECURSIVE LumaSum(_, _, _, _, _)
LumaSum(image, x0, x1, y0, y1) ==
  IF y0 >= y1 THEN 0
  ELSE LumaRowSum(image, x0, x1, y0) + LumaSum(image, x0, x1, y0 + 1, y1)

\* the truncated mean of the Y channel over the sampling window of box b
LumaMean(image, b) ==
  LET win == WindowOf(b)
  IN LumaSum(image, win.left, win.right, win.top, win.bottom)
       \div ((win.right - win.left) * (win.bottom - win.top))

\* C12 as stated: the luminance sampled for a region is the truncated mean of
\* the Y channel over all the pixels of the region's sampling window.
C12_LumaMean ==
  pc = "rotate" =>
    \A i \in 1..Len(boxes) :
      ComputeLuminanceRegions(img, boxes).value[i][2] = LumaMean(img, boxes[i])

Verdict(image, t, d) ==
  LET cropped == Crop(image)
      found == FindBoxes(cropped)
      first == ComputeLuminanceRegions(cropped, found)
      rot == CorrectImageRotation(cropped, SortByColumns(first.value))
      second == ComputeLuminanceRegions(rot.img, found)
      ordered == HilbertOrdered(SortByColumns(second.value))
  IN IF IsEmptyImage(cropped) THEN "cv2"
     ELSE IF CountMismatch(Len(found)) THEN "count"
     ELSE IF first.raised THEN "cv2"
     ELSE IF rot.raised # "" THEN rot.raised
     ELSE IF second.raised THEN "cv2"
     ELSE IF RatioLt(ComputeAvg(ordered), t) THEN "luminance"
     ELSE IF RatioLt(ComputeAvgDeltaOfSuccessiveBoxes(ordered), d) THEN "delta"
     ELSE "none"

\* C15: the outcome of a call is the outcome the checks give on the frame
\* and the thresholds alone: it is the same whatever file_stem is and whether
\* or not the images and plots are written and the annotations drawn.
C15_OutcomeIgnoresArtifacts ==
  Terminal =>
    LET v == Verdict(input.img, LumThreshold, DeltaThreshold)
    IN /\ raised.kind = v
       /\ pc = "returned" <=> v = "none"

\* a call that wrote the annotated image and returned
C15_Witness ==
  /\ pc = "returned"
  /\ file_stem = "_camera_extension"
  /\ Written("result.jpg")
  /\ Len(Content("result.jpg").marks) = 40
  /\ FirstSixSum = 6 * LumThreshold

\* the failure reported is that of the first check that fails: the count
\* check comes before the sampling, the orientation checks before the
\* re-sampling and the plots, the luminance check before the delta check
ChecksInOrder ==
  /\ raised.kind = "count" =>
       (Len(boxes) # 20 /\ regions = <<>> /\ ~Written("rotated.jpg"))
  /\ raised.kind \in {"ambiguous", "unmapped"} =>
       /\ Len(boxes) = 20
       /\ ~Written("rotated.jpg")
       /\ hilbert_ordered = <<>>
  /\ raised.kind \in {"luminance", "delta"} =>
       /\ Len(boxes) = 20
       /\ Written("rotated.jpg")
       /\ Written("luminance_plot.png")
  /\ raised.kind = "luminance" => FirstSixSum < 6 * LumThreshold
  /\ raised.kind = "delta" =>
       (FirstSixSum >= 6 * LumThreshold /\ DeltaSum < 5 * DeltaThreshold)
  /\ pc = "returned" <=> raised = NoError

\* C16 as stated: a call that has ended has returned or raised one of the
\* count, ambiguous corners, unmapped pair, luminance and delta failures,
\* and the failure is that of the first check that fails.
C16_FixedOutcomes ==
  Terminal =>
    /\ raised.kind \in {"none", "count", "ambiguous", "unmapped", "luminance",
                        "delta"}
    /\ ChecksInOrder

\* C17: while the camera records, the thread p has been started and the
\* caller is inside the recording call; collect_data has returned only
\* after the recording call returned the recording object and the thread p
\* has ended.
C17_JoinedBeforeReturn ==
  /\ camera = "recording" => (c_pc = "recording" /\ p.state # "none")
  /\ c_pc \in {"record", "recording", "join"} => p.state # "none"
  /\ c_pc = "returned" =>
       /\ p.state = "finished"
       /\ rotations = NUM_ROTATIONS
       /\ recording_obj = "recording"
       /\ camera # "recording"
  /\ recording_obj # "None" => c_pc \in {"join", "returned"}

\* the recording ended while the thread p was still rotating the rig, and
\* collect_data has returned
C17_Witness ==
  /\ c_pc = "returned"
  /\ p.state = "finished"
  /\ p.servo_speed = "ARDUINO_SERVO_SPEED_STABILIZATION_TABLET"
  /\ p.serial_port = "arduino_port"


\* C21: the test raises AssertionError(test_failures) if and only if
\* verify_preview_stabilization returned a failure for at least one tested
\* (preview_size, zoom_ratio); a failure at one zoom ratio is not lost when
\* another zoom ratio of the same size passes.
C21_FailureNeverLost ==
  t_pc \in {"returned", "raised_test_failures"} =>
    /\ (t_pc = "raised_test_failures") <=>
         (\E i \in 1..Len(verified) : verified[i].failure # None)
    /\ \A i \in 1..Len(verified) :
         verified[i].failure # None =>
           verified[i].failure \in Range(test_failures)

\* C22: verify_preview_stabilization raises when the gyro angle is below 5
\* degrees; otherwise the failure is None exactly when the camera angle is
\* below the gyro angle times 0.7 (sizes up to 16:9) or times 0.77 (wider).
C22_FailureExactlyAtFactor ==
  v_pc \in {"raised", "returned"} =>
    LET wide == video_size \notin {<<1920, 1080>>, <<1280, 720>>, <<640, 480>>}
        below == IF wide THEN max_camera_angle * 100 < max_gyro_angle * 77
                 ELSE max_camera_angle * 10 < max_gyro_angle * 7
    IN  IF max_gyro_angle < 5
          THEN v_pc = "raised"
          ELSE /\ v_pc = "returned"
               /\ (v_result.failure = None) <=> below
               /\ v_result.gyro = max_gyro_angle
               /\ v_result.cam = max_camera_angle

\* a wide size at the boundary: the camera angle equals 0.77 times the gyro
\* angle and the failure is reported
C22_Witness ==
  /\ v_pc = "returned"
  /\ video_size = <<2400, 1080>>
  /\ max_gyro_angle = 100
  /\ max_camera_angle = 77
  /\ v_result.failure # None

\* C23: preview_over_zoom_range raises when the number of capture results
\* differs from the number of frames; otherwise both returned lists have
\* max(0, n - 15) entries, are the inputs without their first 15 entries, and
\* the i-th capture result returned is the one of the i-th frame returned.
C23_SkippedAndAligned ==
  z_pc # "idle" =>
    LET n == Len(capture_metadata)
    IN  IF n # Len(extracted)
          THEN z_pc = "raised"
          ELSE /\ z_pc = "returned"
               /\ Len(capture_results) = Max(0, n - 15)
               /\ Len(file_list) = Max(0, n - 15)
               /\ \A i \in 1..Len(capture_results) :
                    /\ capture_results[i] = capture_metadata[i + 15]
                    /\ file_list[i] = extracted[i + 15]
                    /\ capture_results[i].result_of_frame =
                         file_list[i].file_of_frame

\* 17 frames recorded, two of them returned
C23_Witness ==
  /\ z_pc = "returned"
  /\ Len(capture_metadata) = 17
  /\ Len(file_list) = 2
  /\ file_list[1].file_of_frame = 16

\* C24: after the crossover loop, the test raises 'Crossover point not found'
\* if no capture result has a physical id other than its predecessor's;
\* otherwise counter >= 2, capture_results[counter-1] is the first result
\* whose id is not the first result's, capture_results[counter-2] is the
\* result right before it, with the first id, and both indices are in range.
C24_CrossoverFound ==
  m_pc \in {"found", "raised_not_found", "raised_index_error"} =>
    LET r == switch_capture_results
    IN  IF \A i \in 2..Len(r) : r[i].activePhysicalId = r[i - 1].activePhysicalId
          THEN m_pc = "raised_not_found"
          ELSE /\ m_pc # "raised_not_found"
               /\ counter >= 2
               /\ counter <= Len(r)
               /\ r[counter].activePhysicalId # r[1].activePhysicalId
               /\ \A j \in 1..(counter - 1) :
                    r[j].activePhysicalId = r[1].activePhysicalId
               /\ r[counter].result_of_frame = r[counter - 1].result_of_frame + 1
               /\ m_pc = "found" =>
                    /\ crossover.capture_result_uw = r[counter - 1]
                    /\ crossover.capture_result_w = r[counter]

\* the lens changes at the third of the capture results kept
C24_Witness ==
  /\ m_pc = "found"
  /\ counter = 3
  /\ crossover.capture_result_uw.activePhysicalId = "uw"
  /\ crossover.capture_result_w.activePhysicalId = "w"
  /\ crossover.capture_result_w.result_of_frame = 18

\* C25: launch_and_take_capture force-stops the camera app exactly once on
\* every exit path (a capture, no jpg file found, a step that raises), and
\* after the last capture step that ran; before it ends it has not yet
\* force-stopped the app.
C25_ForceStopOnce ==
  LET stops == {i \in 1..Len(steps) : steps[i] = "am force-stop " \o pkg_name}
  IN  /\ l_pc \in {"returned", "raised"} =>
           /\ Cardinality(stops) = 1
           /\ steps[Len(steps)] = "am force-stop " \o pkg_name
      /\ l_pc \notin {"returned", "raised"} => stops = {}
      /\ l_pc = "returned" => exception = "None" /\ img_path_on_dut # "unset"

\* no jpg file was found: the AssertionError leaves after the force-stop
C25_Witness ==
  /\ l_pc = "raised"
  /\ exception = "AssertionError"
  /\ Len(steps) >= 2
  /\ steps[Len(steps) - 1] = "find"
  /\ steps[Len(steps)] = "am force-stop com.android.camera2"

\* C26: whenever the samples of some capture result, the first one that
\* reports samples included, all carry the same timestamp, the message
\* returned by verify_lens_intrinsics_sample has the 'Timestamps in samples
\* did not change' text; it returns None when no capture result reports
\* samples.
C26_TimestampsValidated ==
  i_pc = "returned" =>
    LET r == intrinsics_capture_results
    IN  /\ (\A i \in 1..Len(r) : ~r[i].reported) => failure_msg = <<>>
        /\ (\E i \in 1..Len(r) :
              /\ r[i].reported
              /\ \A j \in 1..Len(r[i].samples) :
                   r[i].samples[j].timestamp = r[i].samples[1].timestamp)
           => "Timestamps in samples did not change." \in Range(failure_msg)

\* C27: collect_data leaves no mover thread unjoined on any exit path: also
\* when cam.start_sensor_events or cam.do_preview_recording raises after the
\* thread was started, the thread has been joined, and so has ended, before
\* the exception reaches the caller.
C27_JoinedOnEveryExit ==
  c_pc \in {"returned", "raised"} => p.state # "running"

\* the names of the files written so far, in the order written
FileNames == [i \in 1..Len(files) |-> files[i].name]

\* the six artifacts in the order of the pipeline
PipelineOrder ==
  <<"original.jpg", "cropped.jpg", "rotated.jpg", "result.jpg",
    "luminance_plot.png",
    "luminance_difference_between_successive_boxes_plot.png">>

\* C28: the artifacts are written in pipeline order and only up to the
\* failing stage: on a wrong region count only the original and cropped
\* images were written; on an orientation failure the rotated and result
\* images and both plots were not; on a threshold failure all four images
\* and both plots were written before the failure is raised.
C28_ArtifactsUpToFailure ==
  /\ Len(files) <= 6
  /\ FileNames = SubSeq(PipelineOrder, 1, Len(files))
  /\ pc = "raised" =>
       /\ raised.kind = "count" => Len(files) = 2
       /\ raised.kind \in {"ambiguous", "unmapped"} => Len(files) = 2
       /\ raised.kind \in {"luminance", "delta"} => Len(files) = 6

\* a threshold failure with every artifact on disk
C28_Witness ==
  /\ pc = "raised"
  /\ raised.kind = "delta"
  /\ FileNames = PipelineOrder

\* the traversal sequence with the luminance of entry k (counted from 1)
\* replaced by v
WithLuminance(results, k, v) ==
  [results EXCEPT ![k] = <<results[k][1], v>>]

\* C29: the delta metric telescopes: for a 16-entry traversal sequence
\* _compute_avg_delta_of_successive_boxes returns (the luminance of entry 6
\* minus the luminance of entry 1) / 5, so the metric and the delta verdict
\* do not change with entries 2..5 and 7..16.
C29_DeltaTelescopes ==
  (pc \in {"raised", "returned"} /\ Len(hilbert_ordered) = 16
   /\ raised.kind \in {"none", "luminance", "delta"}) =>
    LET given == SubSeq(hilbert_ordered, 1, 16)
        ends == Ratio(given[6][2] - given[1][2], 5)
    IN  /\ delta_avg = ends
        /\ ComputeAvgDeltaOfSuccessiveBoxes(given) = ends
        /\ \A k \in (2..5) \cup (7..16), v \in {0, 101, 255} :
             LET changed ==
                   ComputeAvgDeltaOfSuccessiveBoxes(WithLuminance(given, k, v))
             IN  /\ changed = ends
                 /\ RatioLt(changed, input.avg_delta_luminance_threshold)
                    <=> RatioLt(delta_avg, input.avg_delta_luminance_threshold)

\* the first five deltas are not all the same, and the delta check fails
C29_Witness ==
  /\ pc = "raised"
  /\ raised.kind = "delta"
  /\ Len(hilbert_ordered) = 16
  /\ hilbert_ordered[2][2] - hilbert_ordered[1][2]
       # hilbert_ordered[3][2] - hilbert_ordered[2][2]

\* C30: _crop returns the image unchanged when no red contour has an aspect
\* ratio strictly between 0.8 and 1.2 and a bounding-box area above 20;
\* otherwise it returns the part of the image inside the largest such
\* bounding box inset by 10 pixels on every side, which has positive width
\* and height.
C30_CropInsetPositive ==
  (pc = "find_boxes" \/ (pc = "raised" /\ Len(files) = 1)) =>
    LET original == input.img
        red == original.red
        qualifying == {i \in 1..Len(red) :
                         /\ AspectInRange(red[i].w, red[i].h)
                         /\ red[i].w * red[i].h > 20}
    IN  IF qualifying = {}
          THEN img = original
          ELSE \E i \in qualifying :
                 /\ \A j \in qualifying :
                      red[j].w * red[j].h <= red[i].w * red[i].h
                 /\ img = Slice(original, red[i].y + 10, red[i].y + red[i].h - 10,
                                red[i].x + 10, red[i].x + red[i].w - 10)
                 /\ img.w = red[i].w - 20
                 /\ img.h = red[i].h - 20
                 /\ img.w > 0
                 /\ img.h > 0

=========================================================================
